---- MODULE Spec2Model ----
(***************************************************************************)
(* EDData collector: the ingestion loop (write-lock, dead-letter buffer,   *)
(* asynchronous decompression, dedup set, version gate, dispatch), the     *)
(* event handlers writing the four stores, and the maintenance jobs that   *)
(* set and clear the write-lock.                                            *)
(*                                                                         *)
(* Conventions.  Text is a TLA+ string.  A JavaScript undefined text is the *)
(* string "undefined", a missing StarPos is the empty tuple, a missing id   *)
(* is 0 (as falsy as undefined), SQL NULL is NullNum in a numeric column    *)
(* and NullStr in a text column.                                            *)
(* A table is a function from the primary keys present to rows; a row is a *)
(* record over the table's columns.                                        *)
(***************************************************************************)
EXTENDS Integers, Sequences, FiniteSets, TLC

VARIABLES
    systems,              \* systems.db, table systems: systemAddress -> row
    locations,            \* locations.db, table locations: locationId -> row
    stations,             \* stations.db, table stations: marketId -> row
    trade,                \* trade.db, table commodities: <<commodityName, marketId>> -> row
    now,                  \* the wall clock read by new Date() / Date.now()
    databaseWriteLocked,  \* the write-lock flag
    messageBuffer,        \* dead-letter buffer: frames received while locked
    inflight,             \* frames handed to zlib.inflate whose callback has not run
    messageCache,         \* dedup set, in insertion order
    messageCount,         \* processed counter
    received,             \* every frame taken from the socket, in arrival order, each
                          \* with whether it went to the dead-letter buffer
    log,                  \* the frames dispatched to a handler, in the order of dispatch,
                          \* each with the keys its cache cleanup removed
    startupBackup,        \* "running" while the startup `npm run backup` child runs, else "none"
    window,               \* maintenance window chain: "idle", "optimize" or "backup"
    lastExit,             \* the child process whose exec callback ran last, and whether
                          \* it ended with an error
    outcomes,             \* frame id -> what its inflate callback did, once it has run
    lastCall,             \* the last payload dispatched and the tables it found
    nearby,               \* a call of getNearbySystemSectors: its arguments and its result
    snapshotDir,          \* data/.snapshots: file name -> the snapshot file
    cacheDir,             \* the cache directory: file name -> the cache file
    liveSchema,           \* live database file name -> "absent", or whether its tables,
                          \* columns and indexes are "outdated" or "current"
    lastRefresh,          \* the last run of a stats script: how often it called
                          \* createSnapshots, and whether the last of these calls threw
    freshCheck,           \* the last call of areSnapshotsFresh: when, its answer, and the
                          \* parity of the number of calls so far
    snapshotFiles,        \* the snapshot directory as overlapping script processes see
                          \* it, file by file: absent, being written, or complete
    running,              \* where each stats process is in its script
    opened,               \* the snapshot files the stats processes opened, and the
                          \* state each file was in when it was opened
    vacuum,               \* the last VACUUM of the trade database: who ran it, the
                          \* write-lock and the temp_store of its connection
    regional,             \* a call of the commodity-stats functions: the databases and
                          \* arguments it is given, and its results
    proc                  \* the collector process: its environment, how far it has come,
                          \* what startup did, what a signal handler closed, its exit code

stores == <<systems, locations, stations, trade>>
ingest == <<databaseWriteLocked, messageBuffer, inflight, messageCache, messageCount, received,
            log, outcomes, lastCall>>
jobs == <<startupBackup, window, lastExit>>
\* the state of the ingestor process
core == <<systems, locations, stations, trade, now, databaseWriteLocked, messageBuffer,
          inflight, messageCache, messageCount, received, log, startupBackup, window, lastExit,
          outcomes, lastCall>>
\* the state of the library functions and scripts called apart from the ingestor
scripts == <<snapshotDir, cacheDir, freshCheck, liveSchema, lastRefresh>>
overlap == <<snapshotFiles, running, opened>>
aside == <<nearby, regional, vacuum, overlap, overlap, scripts, proc>>
vars == <<core, aside>>

----------------------------------------------------------------------------
(* Bounds of the model *)

MaxFrames == 3
MaxClock == 1
MaxCalls == 3

\* The dedup set's cap and cleanup size, scaled down from 50000 and 25000
MESSAGE_CACHE_MAX_SIZE == 2
MESSAGE_CACHE_CLEANUP_SIZE == 1

(* Program constants *)

SYSTEM_GRID_SIZE == 100
GAME_MIN_MAJOR_VERSION == 4
NullNum == -999
NullStr == "NULL"
undefined == "undefined"
NoStarPos == << >>

----------------------------------------------------------------------------
(* JavaScript strings and numbers *)

startsWith(s, p) == Len(s) >= Len(p) /\ SubSeq(s, 1, Len(p)) = p

\* s.split('.')[0]: the text before the first '.', all of s when it has none
RECURSIVE splitFirst(_, _)
splitFirst(s, i) ==
    IF i > Len(s) THEN s
    ELSE IF SubSeq(s, i, i) = "." THEN SubSeq(s, 1, i - 1)
    ELSE splitFirst(s, i + 1)

Digits == {"0", "1", "2", "3", "4", "5", "6", "7", "8", "9"}

DigitValue(c) ==
    CASE c = "0" -> 0 [] c = "1" -> 1 [] c = "2" -> 2 [] c = "3" -> 3 [] c = "4" -> 4
      [] c = "5" -> 5 [] c = "6" -> 6 [] c = "7" -> 7 [] c = "8" -> 8 [] c = "9" -> 9

IsDecimal(s) == \A i \in 1..Len(s) : SubSeq(s, i, i) \in Digits

RECURSIVE DecimalValue(_, _)
DecimalValue(s, n) ==
    IF n = 0 THEN 0 ELSE 10 * DecimalValue(s, n - 1) + DigitValue(SubSeq(s, n, n))

\* Number(s) of a text of digits and letters: '' is 0, decimal digits are their
\* value, anything else is NaN.  A number is [nan, n].
Number(s) ==
    IF IsDecimal(s) THEN [nan |-> FALSE, n |-> DecimalValue(s, Len(s))]
    ELSE [nan |-> TRUE, n |-> 0]

\* a < k in JavaScript: false when a is NaN
LessThan(a, k) == ~a.nan /\ a.n < k

\* Two digits of a date or time field
Pad2(n) == IF n < 10 THEN "0" \o ToString(n) ELSE ToString(n)

SECONDS_PER_DAY == 24 * 60 * 60

\* toISOString() of clock reading t, in seconds since 2026-01-01T00:00:00Z
\* (December 2025 and January 2026)
ISO(t) ==
    LET day == t \div SECONDS_PER_DAY
        second == t % SECONDS_PER_DAY
    IN  (IF day < 0 THEN "2025-12-" \o Pad2(32 + day) ELSE "2026-01-" \o Pad2(day + 1))
        \o "T" \o Pad2(second \div 3600) \o ":" \o Pad2((second % 3600) \div 60)
        \o ":" \o Pad2(second % 60) \o "Z"

\* The clock reading an ISO text stands for; text comparison of two ISO texts
\* orders them as their clock readings
IsoSeconds(text) ==
    LET field(i, j) == DecimalValue(SubSeq(text, i, j), j - i + 1)
        day == IF SubSeq(text, 1, 7) = "2025-12" THEN field(9, 10) - 32 ELSE field(9, 10) - 1
    IN  day * SECONDS_PER_DAY + field(12, 13) * 3600 + field(15, 16) * 60 + field(18, 19)

\* getISOTimestamp(numberOfDays) at clock reading t
getISOTimestamp(numberOfDays, t) == ISO(t + numberOfDays * SECONDS_PER_DAY)

----------------------------------------------------------------------------
(* The four stores and the prepared-statement helper *)

SystemsColumns ==
    {"systemAddress", "systemName", "systemX", "systemY", "systemZ", "systemSector", "updatedAt"}

LocationsColumns ==
    {"locationId", "locationName", "systemAddress", "systemName", "systemX", "systemY",
     "systemZ", "bodyId", "bodyName", "latitude", "longitude", "updatedAt"}

\* The service flags are represented by shipyard and outfitting.
StationsColumns ==
    {"marketId", "stationName", "stationType", "allegiance", "government", "primaryEconomy",
     "secondaryEconomy", "shipyard", "outfitting", "systemAddress", "systemName", "systemX",
     "systemY", "systemZ", "bodyId", "bodyName", "latitude", "longitude",
     "maxLandingPadSize", "updatedAt"}

CommoditiesColumns ==
    {"commodityName", "marketId", "buyPrice", "demand", "demandBracket", "meanPrice",
     "sellPrice", "stock", "stockBracket", "updatedAt", "updatedAtDay"}

\* Columns declared INT or REAL
NumericColumns ==
    {"systemAddress", "systemX", "systemY", "systemZ", "marketId", "bodyId", "latitude",
     "longitude", "shipyard", "outfitting", "maxLandingPadSize", "buyPrice", "demand",
     "demandBracket", "meanPrice", "sellPrice", "stock", "stockBracket"}

Columns(table) ==
    CASE table = "systems" -> SystemsColumns
      [] table = "locations" -> LocationsColumns
      [] table = "stations" -> StationsColumns
      [] table = "commodities" -> CommoditiesColumns

PrimaryKey(table, row) ==
    CASE table = "systems" -> row.systemAddress
      [] table = "locations" -> row.locationId
      [] table = "stations" -> row.marketId
      [] table = "commodities" -> <<row.commodityName, row.marketId>>

\* No column has a DEFAULT in CREATE TABLE: a column the statement does not name is NULL.
ColumnDefault(c) == IF c \in NumericColumns THEN NullNum ELSE NullStr

\* The row INSERT OR REPLACE INTO table (keys of object) VALUES (...) writes
NewRow(table, object) ==
    [c \in Columns(table) |-> IF c \in DOMAIN object THEN object[c] ELSE ColumnDefault(c)]

\* Mutant of PutRow: the table is emptied before the row is inserted
PutRowAlone(rows, key, row) == [k \in {key} |-> row]

\* REPLACE: the row with the same primary key, if any, is removed and the new row inserted.
PutRow(rows, key, row) ==
    [k \in DOMAIN rows \cup {key} |-> IF k = key THEN row ELSE rows[k]]

\* dbs is the record of the four tables, by table name
insertOrReplaceInto(dbs, table, object) ==
    LET row == NewRow(table, object)
    IN  [dbs EXCEPT ![table] = PutRow(@, PrimaryKey(table, row), row)]

\* UPDATE table SET (keys of object) WHERE primary key = key
update(dbs, table, object, key) ==
    IF key \notin DOMAIN dbs[table] THEN dbs
    ELSE [dbs EXCEPT ![table][key] =
            [c \in Columns(table) |-> IF c \in DOMAIN object THEN object[c] ELSE @[c]]]

DBs == [systems |-> systems, locations |-> locations, stations |-> stations, commodities |-> trade]

SetDBs(dbs) ==
    /\ systems' = dbs.systems
    /\ locations' = dbs.locations
    /\ stations' = dbs.stations
    /\ trade' = dbs.commodities

----------------------------------------------------------------------------
(* Sector hasher *)

\* A JavaScript argument: a number, a string or undefined
JSNumber(n) == [t |-> "number", n |-> n, s |-> ""]
JSString(s) == [t |-> "string", n |-> 0, s |-> s]
JSUndefined == [t |-> "undefined", n |-> 0, s |-> ""]

\* createHash('shake256').update(text).digest('hex'), taken to be injective
shake256(text) == "shake256(" \o text \o ")"

\* `${Math.floor(v / SYSTEM_GRID_SIZE)}`: NaN for undefined and for a string that is
\* not a number (no system name of the model is a number)
GridText(v) == IF v.t = "number" THEN ToString(v.n \div SYSTEM_GRID_SIZE) ELSE "NaN"

getSystemSector(x, y, z) ==
    shake256(GridText(x) \o ", " \o GridText(y) \o ", " \o GridText(z))

\* Mutant of getAllNumbersBetween: the upper end is left out
getAllNumbersBelow(min, max) ==
    [i \in 1..(max - min) |-> min + (i - 1)]

\* _getAllNumbersBetween(min, max): Array.from({ length: max - min + 1 }, (_, i) => min + i)
getAllNumbersBetween(min, max) ==
    [i \in 1..(max - min + 1) |-> min + (i - 1)]

\* Math.floor(v / SYSTEM_GRID_SIZE) and Math.ceil(v / SYSTEM_GRID_SIZE) of a whole number
GridFloor(v) == v \div SYSTEM_GRID_SIZE
GridCeil(v) == -((-v) \div SYSTEM_GRID_SIZE)

\* The array the three nested for...of loops push to, in the order of the pushes
getNearbySystemSectors(x, y, z, distance) ==
    LET xGridValues == getAllNumbersBetween(GridFloor(x - distance), GridCeil(x + distance))
        yGridValues == getAllNumbersBetween(GridFloor(y - distance), GridCeil(y + distance))
        zGridValues == getAllNumbersBetween(GridFloor(z - distance), GridCeil(z + distance))
        ny == Len(yGridValues)
        nz == Len(zGridValues)
    IN  [i \in 1..(Len(xGridValues) * ny * nz) |->
            LET xVal == xGridValues[((i - 1) \div (ny * nz)) + 1]
                yVal == yGridValues[(((i - 1) \div nz) % ny) + 1]
                zVal == zGridValues[((i - 1) % nz) + 1]
            IN  shake256(ToString(xVal) \o ", " \o ToString(yVal) \o ", " \o ToString(zVal))]

\* A call of getNearbySystemSectors that has not been made / has returned
NearbyArgs(x, y, z, distance) ==
    [x |-> x, y |-> y, z |-> z, distance |-> distance, sectors |-> << >>, done |-> FALSE]

NearbyCall ==
    /\ ~nearby.done
    /\ nearby' = [nearby EXCEPT !.sectors = getNearbySystemSectors(nearby.x, nearby.y, nearby.z,
                                                                  nearby.distance),
                                !.done = TRUE]
    /\ UNCHANGED <<core, regional, vacuum, overlap, scripts, proc>>

----------------------------------------------------------------------------
(* Event handlers.  Each takes the tables, the payload and the clock reading *)
(* and gives the tables it leaves, also when it ends by throwing.            *)

\* (StarPos?.[0] ?? 0) === 0 && (StarPos?.[1] ?? 0) === 0 && (StarPos?.[2] ?? 0) === 0
ZeroStarPos(StarPos) ==
    /\ (IF StarPos = NoStarPos THEN 0 ELSE StarPos[1]) = 0
    /\ (IF StarPos = NoStarPos THEN 0 ELSE StarPos[2]) = 0
    /\ (IF StarPos = NoStarPos THEN 0 ELSE StarPos[3]) = 0

\* A discovery-scan handler that would write the row whether it exists or not
discoveryScanEventOverwrites(dbs, payload, t) ==
    LET message == payload.message
    IN  IF ZeroStarPos(message.StarPos) /\ message.SystemName # "Sol" THEN dbs
        ELSE IF message.StarPos = NoStarPos THEN dbs
        ELSE insertOrReplaceInto(dbs, "systems",
                [systemAddress |-> message.SystemAddress,
                 systemName |-> message.SystemName,
                 systemX |-> message.StarPos[1],
                 systemY |-> message.StarPos[2],
                 systemZ |-> message.StarPos[3],
                 systemSector |-> getSystemSector(JSString(message.SystemName), JSUndefined, JSUndefined),
                 updatedAt |-> ISO(t)])

discoveryScanEvent(dbs, payload, t) ==
    LET message == payload.message
        systemAddress == message.SystemAddress
    IN  IF ZeroStarPos(message.StarPos) /\ message.SystemName # "Sol" THEN dbs
        ELSE IF systemAddress \in DOMAIN dbs.systems THEN dbs
        ELSE IF message.StarPos = NoStarPos THEN dbs   \* StarPos[0] throws TypeError
        ELSE insertOrReplaceInto(dbs, "systems",
                [systemAddress |-> systemAddress,
                 systemName |-> message.SystemName,
                 systemX |-> message.StarPos[1],
                 systemY |-> message.StarPos[2],
                 systemZ |-> message.StarPos[3],
                 systemSector |-> getSystemSector(JSString(message.SystemName), JSUndefined, JSUndefined),
                 updatedAt |-> ISO(t)])

\* route.forEach from hop i on; a throw ends the whole forEach
RECURSIVE navRouteFrom(_, _, _, _)
navRouteFrom(dbs, route, i, t) ==
    IF i > Len(route) THEN dbs
    ELSE LET system == route[i]
             systemAddress == system.SystemAddress
             systemName == system.StarSystem
         IN  IF ZeroStarPos(system.StarPos) /\ system.SystemName # "Sol"
             THEN navRouteFrom(dbs, route, i + 1, t)
             ELSE IF systemAddress \in DOMAIN dbs.systems
             THEN navRouteFrom(dbs, route, i + 1, t)
             ELSE IF system.StarPos = NoStarPos THEN dbs   \* StarPos[0] throws TypeError
             ELSE navRouteFrom(
                    insertOrReplaceInto(dbs, "systems",
                        [systemAddress |-> systemAddress,
                         systemName |-> systemName,
                         systemX |-> system.StarPos[1],
                         systemY |-> system.StarPos[2],
                         systemZ |-> system.StarPos[3],
                         systemSector |-> getSystemSector(JSString(systemName), JSUndefined, JSUndefined),
                         updatedAt |-> ISO(t)]),
                    route, i + 1, t)

navRouteEvent(dbs, payload, t) == navRouteFrom(dbs, payload.message.Route, 1, t)

CONSTRUCTION_SITE_PREFIX == "Planetary Construction Site :"

\* Mutant of locationIdOf: only the system and the name are hashed
locationIdOfPlace(systemAddress, locationName, bodyId, latitude, longitude) ==
    shake256(ToString(systemAddress) \o "/" \o locationName)

\* `${systemAddress}/${locationName}/${bodyId}/${latitude}/${longitude}` hashed
locationIdOf(systemAddress, locationName, bodyId, latitude, longitude) ==
    shake256(ToString(systemAddress) \o "/" \o locationName \o "/" \o ToString(bodyId)
             \o "/" \o ToString(latitude) \o "/" \o ToString(longitude))

\* An approach-settlement handler that would log every place as a location
approachSettlementEventLogsPlace(dbs, payload, t) ==
    LET e == payload.message
    IN  IF e.StarPos = NoStarPos THEN dbs
        ELSE insertOrReplaceInto(dbs, "locations",
                [systemAddress |-> e.SystemAddress,
                 systemName |-> e.StarSystem,
                 locationName |-> e.Name,
                 locationId |-> locationIdOf(e.SystemAddress, e.Name, e.BodyID,
                                             e.Latitude, e.Longitude),
                 updatedAt |-> ISO(t)])

approachSettlementEvent(dbs, payload, t) ==
    LET e == payload.message
        stationName == e.Name
        systemAddress == e.SystemAddress
        systemName == e.StarSystem
        withSystem ==
            IF systemAddress \in DOMAIN dbs.systems THEN dbs
            ELSE insertOrReplaceInto(dbs, "systems",
                    [systemAddress |-> systemAddress,
                     systemName |-> systemName,
                     systemX |-> e.StarPos[1],
                     systemY |-> e.StarPos[2],
                     systemZ |-> e.StarPos[3],
                     systemSector |-> getSystemSector(JSString(systemName), JSUndefined, JSUndefined),
                     updatedAt |-> ISO(t)])
        newItem ==
            [systemAddress |-> systemAddress,
             systemName |-> systemName,
             systemX |-> e.StarPos[1],
             systemY |-> e.StarPos[2],
             systemZ |-> e.StarPos[3],
             bodyId |-> e.BodyID,
             bodyName |-> e.BodyName,
             latitude |-> e.Latitude,
             longitude |-> e.Longitude,
             updatedAt |-> ISO(t)]
    IN  IF ZeroStarPos(e.StarPos) /\ e.SystemName # "Sol" THEN dbs
        ELSE IF e.StarPos = NoStarPos THEN dbs   \* StarPos[0] throws TypeError
        ELSE IF e.MarketID # 0
        THEN \* both branches of the exists test run the same statement
             insertOrReplaceInto(withSystem, "stations",
                newItem @@ [marketId |-> e.MarketID, stationName |-> stationName])
        ELSE IF startsWith(stationName, CONSTRUCTION_SITE_PREFIX) THEN withSystem
        ELSE insertOrReplaceInto(withSystem, "locations",
                newItem @@ [locationName |-> stationName,
                            locationId |-> locationIdOf(systemAddress, stationName, e.BodyID,
                                                        e.Latitude, e.Longitude)])

\* Journal Location.  message.timestamp is the text of the event's own time;
\* new Date(undefined).toISOString() throws RangeError.
locationEvent(dbs, payload, t) ==
    LET message == payload.message
        systemData ==
            [systemAddress |-> message.SystemAddress,
             systemName |-> message.StarSystem,
             systemX |-> IF message.StarPos = NoStarPos THEN NullNum ELSE message.StarPos[1],
             systemY |-> IF message.StarPos = NoStarPos THEN NullNum ELSE message.StarPos[2],
             systemZ |-> IF message.StarPos = NoStarPos THEN NullNum ELSE message.StarPos[3],
             systemSector |-> getSystemSector(JSString(message.StarSystem), JSUndefined, JSUndefined),
             updatedAt |-> message.timestamp]
    IN  IF message.SystemAddress = 0 THEN dbs
        ELSE IF message.timestamp = undefined THEN dbs
        ELSE insertOrReplaceInto(dbs, "systems", systemData)

\* Journal sub-dispatch by message.event; only the Location handler is modelled.
journalEvent(dbs, payload, t) ==
    IF payload.message.event = "Location" THEN locationEvent(dbs, payload, t) ELSE dbs

\* Commodity event: the station row is ensured and its fields updated where the
\* payload carries them; every commodity of the payload is upserted by
\* (commodityName, marketId).
RECURSIVE commoditiesFrom(_, _, _)
commoditiesFrom(dbs, message, i) ==
    IF i > Len(message.commodities) THEN dbs
    ELSE LET c == message.commodities[i]
         IN  commoditiesFrom(
                insertOrReplaceInto(dbs, "commodities",
                    [commodityName |-> c.name,
                     marketId |-> message.marketId,
                     buyPrice |-> c.buyPrice,
                     demand |-> c.demand,
                     demandBracket |-> c.demandBracket,
                     meanPrice |-> c.meanPrice,
                     sellPrice |-> c.sellPrice,
                     stock |-> c.stock,
                     stockBracket |-> c.stockBracket,
                     updatedAt |-> message.timestamp,
                     updatedAtDay |-> SubSeq(message.timestamp, 1, 10)]),
                message, i + 1)

commodityEvent(dbs, payload, t) ==
    LET message == payload.message
        stationFields ==
            [stationName |-> message.stationName,
             systemName |-> message.systemName,
             stationType |-> message.stationType,
             primaryEconomy |-> message.economy,
             shipyard |-> message.shipyard,
             updatedAt |-> message.timestamp]
        withStation ==
            IF message.marketId \in DOMAIN dbs.stations
            THEN update(dbs, "stations", stationFields, message.marketId)
            ELSE insertOrReplaceInto(dbs, "stations",
                    stationFields @@ [marketId |-> message.marketId])
    IN  commoditiesFrom(withStation, message, 1)

----------------------------------------------------------------------------
(* Ingestor: processMessageData and the loop over the socket *)

COMMODITY_SCHEMA == "https://eddn.edcd.io/schemas/commodity/3"
DISCOVERY_SCHEMA == "https://eddn.edcd.io/schemas/fssdiscoveryscan/1"
NAVROUTE_SCHEMA == "https://eddn.edcd.io/schemas/navroute/1"
APPROACH_SCHEMA == "https://eddn.edcd.io/schemas/approachsettlement/1"
JOURNAL_SCHEMA == "https://eddn.edcd.io/schemas/journal/1"

\* `${schema}-${header.gatewayTimestamp || header.timestamp || Date.now()}`
cacheKey(payload, t) ==
    payload.schemaRef \o "-" \o
        (IF payload.header.gatewayTimestamp \notin {undefined, ""}
         THEN payload.header.gatewayTimestamp
         ELSE IF payload.header.timestamp \notin {undefined, ""}
         THEN payload.header.timestamp
         ELSE ToString(t))

\* Number(header.gameversion?.split('.')?.[0] ?? 0)
gameMajorVersion(payload) ==
    IF payload.header.gameversion = undefined THEN Number("0")
    ELSE Number(splitFirst(payload.header.gameversion, 1))

\* The version gate lets the payload through
versionAccepted(payload) ==
    ~(/\ LessThan(gameMajorVersion(payload), GAME_MIN_MAJOR_VERSION)
      /\ ~(/\ payload.header.gameversion # undefined
           /\ startsWith(payload.header.gameversion, "CAPI-Live-")))

\* Mutant of cacheAdd: the cleanup removes the newest entries instead of the oldest
cacheAddDropsNewest(cache, key) ==
    LET added == Append(cache, key)
    IN  IF Len(added) > MESSAGE_CACHE_MAX_SIZE
        THEN SubSeq(added, 1, Len(added) - MESSAGE_CACHE_CLEANUP_SIZE)
        ELSE added

\* Mutant of cacheAdd: the key is not remembered
cacheAddForgets(cache, key) == cache

\* messageCache.add(key) and the cleanup of the oldest entries when over the cap
cacheAdd(cache, key) ==
    LET added == Append(cache, key)
    IN  IF Len(added) > MESSAGE_CACHE_MAX_SIZE
        THEN SubSeq(added, MESSAGE_CACHE_CLEANUP_SIZE + 1, Len(added))
        ELSE added

\* switch (schema): the handler's effect on the tables
dispatch(dbs, payload, t) ==
    CASE payload.schemaRef = COMMODITY_SCHEMA -> commodityEvent(dbs, payload, t)
      [] payload.schemaRef = DISCOVERY_SCHEMA -> discoveryScanEvent(dbs, payload, t)
      [] payload.schemaRef = NAVROUTE_SCHEMA -> navRouteEvent(dbs, payload, t)
      [] payload.schemaRef = APPROACH_SCHEMA -> approachSettlementEvent(dbs, payload, t)
      [] payload.schemaRef = JOURNAL_SCHEMA -> journalEvent(dbs, payload, t)
      [] OTHER -> dbs

\* What the inflate callback of a frame does: "error" (inflate failed), "aborted"
\* (the 5 s deadline passed), "parse-error" (JSON.parse threw), "duplicate",
\* "rejected" (version gate) or "dispatched".
callbackOutcomeIgnoresFaults(frame, late, cache, t) ==
    IF \E i \in 1..Len(cache) : cache[i] = cacheKey(frame.payload, t) THEN "duplicate"
    ELSE IF ~versionAccepted(frame.payload) THEN "rejected"
    ELSE "dispatched"

callbackOutcome(frame, late, cache, t) ==
    IF frame.payload.wire = "corrupt" THEN "error"
    ELSE IF late THEN "aborted"
    ELSE IF frame.payload.wire = "badjson" THEN "parse-error"
    ELSE IF \E i \in 1..Len(cache) : cache[i] = cacheKey(frame.payload, t) THEN "duplicate"
    ELSE IF ~versionAccepted(frame.payload) THEN "rejected"
    ELSE "dispatched"

SeqToSet(q) == {q[i] : i \in 1..Len(q)}

\* processMessageData(message): zlib.inflate is started, its callback runs later
processMessageData(pending, frame) == pending \cup {frame}

\* One iteration of for await (const [message] of socket)
Receive(payload) ==
    /\ Len(received) < MaxFrames
    /\ LET frame == [id |-> Len(received) + 1, payload |-> payload,
                     buffered |-> databaseWriteLocked]
       IN  /\ received' = Append(received, frame)
           /\ IF databaseWriteLocked
              THEN /\ messageBuffer' = Append(messageBuffer, frame)
                   /\ inflight' = inflight
              ELSE /\ messageBuffer' = << >>
                   /\ inflight' = processMessageData(inflight \cup SeqToSet(messageBuffer), frame)
    /\ UNCHANGED <<stores, now, databaseWriteLocked, messageCache, messageCount, log, jobs,
                   outcomes, lastCall, aside>>

\* The callback zlib.inflate calls for one frame in flight
InflateCallback(frame, late) ==
    /\ frame \in inflight
    /\ inflight' = inflight \ {frame}
    /\ LET outcome == callbackOutcome(frame, late, messageCache, now)
           key == cacheKey(frame.payload, now)
           cache == IF outcome = "dispatched" THEN cacheAdd(messageCache, key) ELSE messageCache
       IN  /\ messageCache' = cache
           /\ messageCount' = IF outcome = "dispatched" THEN messageCount + 1 ELSE messageCount
           /\ SetDBs(IF outcome = "dispatched" THEN dispatch(DBs, frame.payload, now) ELSE DBs)
           /\ log' = IF outcome = "dispatched"
                      THEN Append(log, [id |-> frame.id,
                                        evicted |-> SeqToSet(messageCache)
                                                        \ SeqToSet(cache)])
                      ELSE log
           /\ outcomes' = (frame.id :> outcome) @@ outcomes
           /\ lastCall' = IF outcome = "dispatched"
                          THEN [called |-> TRUE, payload |-> frame.payload, before |-> DBs]
                          ELSE lastCall
    /\ UNCHANGED <<now, databaseWriteLocked, messageBuffer, received, jobs, aside>>

\* Time passes
Tick ==
    /\ now < MaxClock
    /\ now' = now + 1
    /\ UNCHANGED <<stores, ingest, jobs, aside>>

----------------------------------------------------------------------------
(* Maintenance jobs that set and clear the write-lock *)

\* What exec hands to its callback: the command that ended, with an error or not
Exit(command, error) == [command |-> command, error |-> error]

\* exec('npm run backup') of the startup backup calls back, with or without an error
StartupBackupExit ==
    /\ startupBackup = "running"
    /\ startupBackup' = "none"
    /\ \E error \in BOOLEAN : lastExit' = Exit("startup backup", error)
    /\ databaseWriteLocked' = FALSE
    /\ UNCHANGED <<stores, now, messageBuffer, inflight, messageCache, messageCount,
                   received, log, outcomes, lastCall, window, aside>>

\* The maintenance-window cron job fires (weekly; the chain of the previous
\* window has ended)
MaintenanceWindowStart ==
    /\ window = "idle"
    /\ databaseWriteLocked' = TRUE
    /\ window' = "optimize"
    /\ UNCHANGED <<stores, now, messageBuffer, inflight, messageCache, messageCount,
                   received, log, outcomes, lastCall, startupBackup, lastExit, aside>>

\* exec('npm run optimize') calls back, with or without an error: the backup starts
OptimizeExit ==
    /\ window = "optimize"
    /\ window' = "backup"
    /\ \E error \in BOOLEAN : lastExit' = Exit("optimize", error)
    /\ UNCHANGED <<stores, now, ingest, startupBackup, aside>>

\* A backup callback that would return on an error before it clears the write-lock
BackupExitOnSuccess ==
    /\ window = "backup"
    /\ window' = "idle"
    /\ \E error \in BOOLEAN :
          /\ lastExit' = Exit("backup", error)
          /\ databaseWriteLocked' = IF error THEN databaseWriteLocked ELSE FALSE
    /\ UNCHANGED <<stores, now, messageBuffer, inflight, messageCache, messageCount,
                   received, log, outcomes, lastCall, startupBackup, aside>>

\* exec('npm run backup') of the window calls back, with or without an error
BackupExit ==
    /\ window = "backup"
    /\ window' = "idle"
    /\ \E error \in BOOLEAN : lastExit' = Exit("backup", error)
    /\ databaseWriteLocked' = FALSE
    /\ UNCHANGED <<stores, now, messageBuffer, inflight, messageCache, messageCount,
                   received, log, outcomes, lastCall, startupBackup, aside>>

\* A VACUUM of the trade database
Vacuum(by, locked, tempStore) == [by |-> by, locked |-> locked, tempStore |-> tempStore]

NoVacuum == Vacuum("none", FALSE, "DEFAULT")

\* The pragmas lib/db sets on each of the collector's connections
databasePragmas == [journal_mode |-> "WAL", synchronous |-> "NORMAL", temp_store |-> "MEMORY"]

\* The pragmas scripts/safe-vacuum.js sets on its own connection
safeVacuumPragmas == [temp_store |-> "FILE"]

\* The weekly VACUUM cron job: the flag is set, tradeDb.exec('VACUUM') runs
\* synchronously on the collector's connection, and finally the flag is cleared
WeeklyVacuum ==
    /\ vacuum' = Vacuum("cron", TRUE, databasePragmas.temp_store)
    /\ databaseWriteLocked' = FALSE
    /\ UNCHANGED <<stores, now, messageBuffer, inflight, messageCache, messageCount,
                   received, log, outcomes, lastCall, jobs, nearby, regional, overlap,
                   scripts, proc>>

\* scripts/safe-vacuum.js, a process of its own started by hand: it opens trade.db
\* and runs VACUUM; the collector's flag is not its to set
SafeVacuum ==
    /\ vacuum' = Vacuum("safe-vacuum", databaseWriteLocked, safeVacuumPragmas.temp_store)
    /\ UNCHANGED <<core, nearby, regional, overlap, scripts, proc>>

----------------------------------------------------------------------------
(* Web service *)

PackageVersion == "1.0.0"

\* The body of the response to GET /health; the process started at clock reading 0
health ==
    [status |-> "healthy", timestamp |-> ISO(now), version |-> PackageVersion, uptime |-> now]

----------------------------------------------------------------------------
(* Snapshots of the databases and the stats scripts that read them *)

SNAPSHOT_AGE_LIMIT == 2 * 60 * 60   \* 2 hours, in seconds

\* { db, name } of each snapshot, in the order of the loops
databases ==
    <<[db |-> "systems", name |-> "systems.db"],
      [db |-> "locations", name |-> "locations.db"],
      [db |-> "stations", name |-> "stations.db"],
      [db |-> "commodities", name |-> "trade.db"]>>

SnapshotNames == {databases[i].name : i \in 1..Len(databases)}

NoFile == [exists |-> FALSE, mtime |-> 0, rows |-> << >>]

\* Mutant of areSnapshotsFresh: only the first snapshot is looked at
areFirstSnapshotFresh(dir, t) ==
    /\ dir[databases[1].name].exists
    /\ ~(t - dir[databases[1].name].mtime > SNAPSHOT_AGE_LIMIT)

\* The loop returns false at the first snapshot that is missing or older than
\* the limit, true after the last (a missing directory holds no file)
areSnapshotsFresh(dir, t) ==
    \A i \in 1..Len(databases) :
        /\ dir[databases[i].name].exists
        /\ ~(t - dir[databases[i].name].mtime > SNAPSHOT_AGE_LIMIT)

\* createSnapshots(): each old snapshot is removed and VACUUM INTO writes the new
\* one; when VACUUM INTO of the failAt-th database throws, that snapshot stays
\* removed and the following ones are left as they were (failAt = 0: none throws)
createSnapshots(dir, dbs, t, failAt) ==
    [name \in SnapshotNames |->
        LET i == CHOOSE k \in 1..Len(databases) : databases[k].name = name
        IN  IF failAt = 0 \/ i < failAt
            THEN [exists |-> TRUE, mtime |-> t, rows |-> dbs[databases[i].db]]
            ELSE IF i = failAt THEN NoFile
            ELSE dir[name]]

\* The tables of the snapshot files, opened read-only
getSnapshot(dir) ==
    [systems |-> dir["systems.db"].rows, locations |-> dir["locations.db"].rows,
     stations |-> dir["stations.db"].rows, commodities |-> dir["trade.db"].rows]

\* SQL text comparison updatedAt > timestamp: NULL is greater than nothing
UpdatedAfter(row, timestamp) ==
    row.updatedAt # NullStr /\ IsoSeconds(row.updatedAt) > IsoSeconds(timestamp)

Rows(table) == {table[k] : k \in DOMAIN table}

\* SUM(CASE WHEN condition THEN 1 ELSE 0 END) ?? 0: NULL over no rows, then 0
CountWhere(table, holds) == Cardinality({k \in DOMAIN table : holds[table[k]]})

\* The stats object of the database-stats script
databaseStats(snapshot, t) ==
    LET last24HoursTimestamp == getISOTimestamp(-1, t)
        Recent(table) == [row \in Rows(table) |-> UpdatedAfter(row, last24HoursTimestamp)]
        IsStation == [row \in Rows(snapshot.stations) |->
                         row.stationType # NullStr /\ row.stationType # "FleetCarrier"]
        IsCarrier == [row \in Rows(snapshot.stations) |-> row.stationType = "FleetCarrier"]
        tradeRecent == CountWhere(snapshot.commodities, Recent(snapshot.commodities))
        stationsRecent == CountWhere(snapshot.stations, Recent(snapshot.stations))
    IN  [systems |-> Cardinality(DOMAIN snapshot.systems),
         pointsOfInterest |-> Cardinality(DOMAIN snapshot.locations),
         stations |-> [stations |-> CountWhere(snapshot.stations, IsStation),
                       carriers |-> CountWhere(snapshot.stations, IsCarrier),
                       updatedInLast24Hours |-> stationsRecent],
         trade |-> [markets |-> Cardinality({k[2] : k \in DOMAIN snapshot.commodities}),
                    orders |-> Cardinality(DOMAIN snapshot.commodities),
                    updatedInLast24Hours |-> tradeRecent,
                    uniqueCommodities |-> Cardinality({k[1] : k \in DOMAIN snapshot.commodities})],
         updatedInLast24Hours |-> tradeRecent + stationsRecent,
         timestamp |-> ISO(t)]

PRICE_LIMIT == 999999
HOT_TRADES_MIN_VOLUME == 100
HOT_TRADES_LIMIT == 1
HIGH_VALUE_LIMIT == 10
MOST_ACTIVE_LIMIT == 10
MOST_ACTIVE_MIN_MARKETS == 5

\* The lists ORDER BY key DESC LIMIT limit may return for the rows of a result:
\* rows of equal key come in any order
OrderedDescLimit(rows, key, limit) ==
    LET n == IF Cardinality(rows) < limit THEN Cardinality(rows) ELSE limit
    IN  {list \in [1..n -> rows] :
            /\ \A i, j \in 1..n : i < j => list[i] # list[j] /\ list[i][key] >= list[j][key]
            /\ \A row \in rows :
                  (\A i \in 1..n : list[i] # row) => \A i \in 1..n : list[i][key] >= row[key]}

\* The rows of the hotTrades query before ORDER BY and LIMIT, as the ticker maps them
hotTradesRows(commodities) ==
    {[commodity |-> buy.commodityName,
      profit |-> sell.sellPrice - buy.buyPrice,
      profitPercent |-> ((sell.sellPrice - buy.buyPrice) * 100) \div buy.buyPrice,
      buy |-> [marketId |-> buy.marketId, price |-> buy.buyPrice, stock |-> buy.stock],
      sell |-> [marketId |-> sell.marketId, price |-> sell.sellPrice, demand |-> sell.demand]] :
        <<buy, sell>> \in {pair \in Rows(commodities) \X Rows(commodities) :
            /\ pair[1].commodityName = pair[2].commodityName
            /\ pair[1].stock > HOT_TRADES_MIN_VOLUME
            /\ pair[1].buyPrice > 0
            /\ pair[1].buyPrice < PRICE_LIMIT
            /\ pair[2].demand > HOT_TRADES_MIN_VOLUME
            /\ pair[2].sellPrice > 0
            /\ pair[2].sellPrice < PRICE_LIMIT
            /\ pair[2].sellPrice > pair[1].buyPrice
            /\ pair[1].marketId # pair[2].marketId}}

RECURSIVE SumOf(_, _)
SumOf(rows, column) ==
    IF rows = {} THEN 0
    ELSE LET row == CHOOSE r \in rows : TRUE
         IN  (IF row[column] = NullNum THEN 0 ELSE row[column]) + SumOf(rows \ {row}, column)

MaxOf(rows, column) == CHOOSE v \in {r[column] : r \in rows} : \A r \in rows : r[column] <= v

\* Math.round(AVG(CASE WHEN 0 < price < 999999 THEN price END) || 0)
RoundedAverage(rows, column) ==
    LET priced == {r \in rows : r[column] > 0 /\ r[column] < PRICE_LIMIT}
        count == Cardinality(priced)
    IN  IF count = 0 THEN 0 ELSE (2 * SumOf(priced, column) + count) \div (2 * count)

\* The rows of the highValueCommodities query before ORDER BY and LIMIT
highValueRows(commodities) ==
    LET valued == {r \in Rows(commodities) :
                      r.sellPrice > 0 /\ r.sellPrice < PRICE_LIMIT /\ r.demand > 0}
    IN  {[commodity |-> name,
          maxPrice |-> MaxOf({r \in valued : r.commodityName = name}, "sellPrice"),
          markets |-> Cardinality({r.marketId : r \in {v \in valued : v.commodityName = name}}),
          demand |-> SumOf({r \in valued : r.commodityName = name}, "demand")] :
            name \in {r.commodityName : r \in valued}}

\* The rows of the activeCommodities query before ORDER BY and LIMIT
mostActiveRows(commodities, t) ==
    LET recent == {r \in Rows(commodities) : UpdatedAfter(r, getISOTimestamp(-1, t))}
        of(name) == {r \in recent : r.commodityName = name}
    IN  {[commodity |-> name,
          activeMarkets |-> Cardinality({r.marketId : r \in of(name)}),
          avgBuyPrice |-> RoundedAverage(of(name), "buyPrice"),
          avgSellPrice |-> RoundedAverage(of(name), "sellPrice"),
          totalStock |-> SumOf(of(name), "stock"),
          totalDemand |-> SumOf(of(name), "demand")] :
            name \in {n \in {r.commodityName : r \in recent} :
                        Cardinality({r.marketId : r \in of(n)}) > MOST_ACTIVE_MIN_MARKETS}}

\* The ticker objects the commodity-stats script may build from a snapshot
tickers(snapshot, t) ==
    {[hotTrades |-> hot, highValue |-> high, mostActive |-> active, timestamp |-> ISO(t)] :
        hot \in OrderedDescLimit(hotTradesRows(snapshot.commodities), "profit", HOT_TRADES_LIMIT),
        high \in OrderedDescLimit(highValueRows(snapshot.commodities), "maxPrice",
                                  HIGH_VALUE_LIMIT),
        active \in OrderedDescLimit(mostActiveRows(snapshot.commodities, t), "activeMarkets",
                                    MOST_ACTIVE_LIMIT)}

\* _saveReport(reportName, reportData): the data with the time of saving
saveReport(reportData, t) == [data |-> reportData, timestamp |-> ISO(t)]

NoCacheFile == [exists |-> FALSE, content |-> << >>, from |-> << >>]

\* fs.writeFileSync(path, JSON.stringify(content)); from: the tables it was drawn from
CacheFile(content, snapshot) == [exists |-> TRUE, content |-> content, from |-> snapshot]

DATABASE_STATS_FILE == "database-stats.json"
TICKER_FILE == "commodity-ticker.json"
COMMODITIES_REPORT_FILE == "commodities.json"
CacheFileNames == {DATABASE_STATS_FILE, TICKER_FILE, COMMODITIES_REPORT_FILE}

\* What the script's call of areSnapshotsFresh answers
\* require('../../lib/db'), which every script does through snapshot-databases:
\* each live file is opened for reading and writing (and created if absent),
\* ensureTables, ensureIndexes and migrateSchema bring its schema up to date
SchemaStates == {"absent", "outdated", "current"}

openLiveDatabases(schema) == [name \in DOMAIN schema |-> "current"]

CurrentSchema == [name \in SnapshotNames |-> "current"]

FreshCheck ==
    [called |-> TRUE, at |-> now, answer |-> areSnapshotsFresh(snapshotDir, now),
     calls |-> (freshCheck.calls + 1) % 2]

\* The calls of createSnapshots in one run of a stats script
Refresh(attempts, threw) == [attempts |-> attempts, threw |-> threw]

NoRefresh == Refresh(0, FALSE)

\* if (!areSnapshotsFresh()) createSnapshots(): one call if the snapshots are not
\* fresh; its throw is not caught
refreshIfStale(fresh, failAt) == IF fresh THEN NoRefresh ELSE Refresh(1, failAt # 0)

\* The database-stats script: the snapshots and the cache it leaves.  New
\* snapshots are made if the old are not fresh; a throw of createSnapshots ends
\* the script before any file of the cache is written.
databaseStatsScript(dir, cache, dbs, t, failAt) ==
    LET fresh == areSnapshotsFresh(dir, t)
        snapshots == IF fresh THEN dir ELSE createSnapshots(dir, dbs, t, failAt)
        snapshot == getSnapshot(snapshots)
    IN  [dir |-> snapshots,
         refresh |-> refreshIfStale(fresh, failAt),
         cache |-> IF ~fresh /\ failAt # 0 THEN cache
                   ELSE [cache EXCEPT ![DATABASE_STATS_FILE] =
                            CacheFile(databaseStats(snapshot, t), snapshot)]]

\* The commodity-stats script: the snapshots and the caches it may leave, with
\* the commodities report and the ticker
commodityStatsScript(dir, cache, dbs, t, failAt) ==
    LET fresh == areSnapshotsFresh(dir, t)
        snapshots == IF fresh THEN dir ELSE createSnapshots(dir, dbs, t, failAt)
        snapshot == getSnapshot(snapshots)
    IN  IF ~fresh /\ failAt # 0
        THEN {[dir |-> snapshots, refresh |-> refreshIfStale(fresh, failAt), cache |-> cache]}
        ELSE {[dir |-> snapshots,
               refresh |-> refreshIfStale(fresh, failAt),
               cache |-> [cache EXCEPT
                   ![COMMODITIES_REPORT_FILE] =
                       CacheFile(saveReport({k[1] : k \in DOMAIN snapshot.commodities}, t),
                                 snapshot),
                   ![TICKER_FILE] = CacheFile(ticker, snapshot)]] :
                ticker \in tickers(snapshot, t)}

\* snapshot-databases.js run directly: createSnapshots()
CreateSnapshots(failAt) ==
    /\ liveSchema' = openLiveDatabases(liveSchema)
    /\ snapshotDir' = createSnapshots(snapshotDir, DBs, now, failAt)
    /\ UNCHANGED <<core, nearby, regional, vacuum, overlap, cacheDir, freshCheck, lastRefresh, proc>>

\* npm run stats:database
DatabaseStatsScript(failAt) ==
    /\ liveSchema' = openLiveDatabases(liveSchema)
    /\ freshCheck' = FreshCheck
    /\ LET left == databaseStatsScript(snapshotDir, cacheDir, DBs, now, failAt)
       IN  snapshotDir' = left.dir /\ cacheDir' = left.cache /\ lastRefresh' = left.refresh
    /\ UNCHANGED <<core, nearby, regional, vacuum, overlap, proc>>

\* npm run stats:commodity
CommodityStatsScript(failAt) ==
    /\ liveSchema' = openLiveDatabases(liveSchema)
    /\ freshCheck' = FreshCheck
    /\ \E left \in commodityStatsScript(snapshotDir, cacheDir, DBs, now, failAt) :
          snapshotDir' = left.dir /\ cacheDir' = left.cache /\ lastRefresh' = left.refresh
    /\ UNCHANGED <<core, nearby, regional, vacuum, overlap, proc>>

\* The 6-hourly cron job: exec('npm run stats'), the database-stats script and
\* then the commodity-stats script
StatsCron(failAt) ==
    /\ liveSchema' = openLiveDatabases(liveSchema)
    /\ LET first == databaseStatsScript(snapshotDir, cacheDir, DBs, now, failAt)
       IN  /\ freshCheck' = [called |-> TRUE, at |-> now,
                             answer |-> areSnapshotsFresh(first.dir, now),
                             calls |-> freshCheck.calls]
           /\ \E left \in commodityStatsScript(first.dir, first.cache, DBs, now, failAt) :
                 /\ snapshotDir' = left.dir
                 /\ cacheDir' = left.cache
                 /\ lastRefresh' = left.refresh
    /\ UNCHANGED <<core, nearby, regional, vacuum, overlap, proc>>

\* Time passes between the runs of the scripts
Moments == {0, SNAPSHOT_AGE_LIMIT, SNAPSHOT_AGE_LIMIT + 1}

Elapse ==
    /\ \E t \in Moments : t > now /\ now' = t
    /\ UNCHANGED <<stores, ingest, jobs, aside>>

----------------------------------------------------------------------------
(* Commodity stats and regional reports: lib/stats/commodity-stats.js *)

DEFAULT_MINIMUM_TRADE_VOLUME == 1000
REPORT_LIMIT == 10
RARE_GOODS_VALUE_INCREASE == 16000

\* The symbols of rare-commodities.json, in lower case
rareCommodities == {"lavianbrandy"}

\* toLowerCase() of the commodity names of the model
toLowerCase(name) == IF name = "LavianBrandy" THEN "lavianbrandy" ELSE name

MinOf(rows, column) == CHOOSE v \in {r[column] : r \in rows} : \A r \in rows : v <= r[column]

\* CAST(AVG(column) AS INT) over the rows, NULL over none
IntAverage(rows, column) ==
    IF rows = {} THEN NullNum ELSE SumOf(rows, column) \div Cardinality(rows)

\* allStatsQuery.get({ commodityName })
allStatsQuery(commodities, commodityName) ==
    LET of == {c \in Rows(commodities) : c.commodityName = commodityName}
        bought == {c \in of : c.stock >= 1 /\ c.buyPrice > 0 /\ c.buyPrice < PRICE_LIMIT}
        sold == {c \in of : c.demand >= 1 /\ c.sellPrice > 0 /\ c.sellPrice < PRICE_LIMIT}
    IN  [maxBuyPrice |-> IF bought = {} THEN NullNum ELSE MaxOf(bought, "buyPrice"),
         minBuyPrice |-> IF bought = {} THEN NullNum ELSE MinOf(bought, "buyPrice"),
         avgBuyPrice |-> IntAverage(bought, "buyPrice"),
         totalStock |-> SumOf(of, "stock"),
         maxSellPrice |-> IF sold = {} THEN NullNum ELSE MaxOf(sold, "sellPrice"),
         minSellPrice |-> IF sold = {} THEN NullNum ELSE MinOf(sold, "sellPrice"),
         avgSellPrice |-> IntAverage(sold, "sellPrice"),
         totalDemand |-> SumOf(of, "demand")]

\* updateCommodityStats(): the entry of every commodity of the trade database
\* (rareMarketId and rareMaxCount, copied from rare-commodities.json, left out)
updateCommodityStats(commodities) ==
    {LET stats == allStatsQuery(commodities, commodityName)
         minPrice == IF stats.minBuyPrice # NullNum THEN stats.minBuyPrice
                     ELSE stats.minSellPrice
         maxSellPrice == IF minPrice # NullNum /\ minPrice # 0
                         THEN minPrice + RARE_GOODS_VALUE_INCREASE ELSE NullNum
     IN  IF toLowerCase(commodityName) \in rareCommodities
         THEN [commodityName |-> commodityName, rare |-> TRUE,
               minBuyPrice |-> minPrice, maxBuyPrice |-> minPrice, avgBuyPrice |-> minPrice,
               totalStock |-> NullNum,
               minSellPrice |-> minPrice,
               maxSellPrice |-> maxSellPrice,
               avgSellPrice |-> IF minPrice # NullNum /\ minPrice # 0
                                THEN maxSellPrice \div 2 ELSE NullNum,
               totalDemand |-> NullNum]
         ELSE [commodityName |-> commodityName, rare |-> FALSE] @@ stats :
        commodityName \in {c.commodityName : c \in Rows(commodities)}}

Squared(v) == v * v

\* SQRT(POWER(s.systemX-@systemX,2)+POWER(s.systemY-@systemY,2)+POWER(s.systemZ-@systemZ,2))
\*   < @distance, on whole numbers; NULL for a station without coordinates
ExactDistanceBelow(s, system, distance) ==
    /\ s.systemX # NullNum /\ s.systemY # NullNum /\ s.systemZ # NullNum
    /\ distance > 0
    /\ Squared(s.systemX - system.systemX) + Squared(s.systemY - system.systemY)
          + Squared(s.systemZ - system.systemZ) < Squared(distance)

\* A box of half the side
InHalfBox(s, system, distance) ==
    /\ s.systemX # NullNum /\ s.systemY # NullNum /\ s.systemZ # NullNum
    /\ 2 * s.systemX >= 2 * system.systemX - distance
    /\ 2 * s.systemX <= 2 * system.systemX + distance
    /\ 2 * s.systemY >= 2 * system.systemY - distance
    /\ 2 * s.systemY <= 2 * system.systemY + distance
    /\ 2 * s.systemZ >= 2 * system.systemZ - distance
    /\ 2 * s.systemZ <= 2 * system.systemZ + distance

\* s.systemX BETWEEN @minX AND @maxX AND s.systemY BETWEEN ... AND s.systemZ BETWEEN ...
InBoundingBox(s, system, distance) ==
    /\ s.systemX # NullNum /\ s.systemY # NullNum /\ s.systemZ # NullNum
    /\ s.systemX >= system.systemX - distance /\ s.systemX <= system.systemX + distance
    /\ s.systemY >= system.systemY - distance /\ s.systemY <= system.systemY + distance
    /\ s.systemZ >= system.systemZ - distance /\ s.systemZ <= system.systemZ + distance

\* commodities c JOIN stationsDb.stations s ON c.marketId = s.marketId
JoinedWithStations(snapshot) ==
    {[c |-> c, s |-> snapshot.stations[c.marketId]] :
        c \in {r \in Rows(snapshot.commodities) : r.marketId \in DOMAIN snapshot.stations}}

\* SELECT c.*, s.stationName, s.stationType, s.systemName, s.systemX, s.systemY,
\* s.systemZ (actualDistance, a square root, left out)
ReportRow(j) ==
    [k \in {"stationName", "stationType", "systemName", "systemX", "systemY", "systemZ"}
        |-> j.s[k]] @@ j.c

\* The lists ORDER BY key ASC LIMIT limit may return
OrderedAscLimit(rows, key, limit) ==
    LET n == IF Cardinality(rows) < limit THEN Cardinality(rows) ELSE limit
    IN  {list \in [1..n -> rows] :
            /\ \A i, j \in 1..n : i < j => list[i] # list[j] /\ list[i][key] <= list[j][key]
            /\ \A row \in rows :
                  (\A i \in 1..n : list[i] # row) => \A i \in 1..n : list[i][key] <= row[key]}

getBestCommodityExporters(snapshot, commodityName, minVolume, system, distance) ==
    OrderedAscLimit(
        {ReportRow(j) : j \in {j \in JoinedWithStations(snapshot) :
            /\ j.c.commodityName = commodityName
            /\ j.c.stock >= minVolume
            /\ j.c.buyPrice > 0
            /\ j.c.buyPrice < PRICE_LIMIT
            /\ InBoundingBox(j.s, system, distance)
            /\ ExactDistanceBelow(j.s, system, distance)}},
        "buyPrice", REPORT_LIMIT)

getBestCommodityImporters(snapshot, commodityName, minVolume, system, distance) ==
    OrderedDescLimit(
        {ReportRow(j) : j \in {j \in JoinedWithStations(snapshot) :
            /\ j.c.commodityName = commodityName
            /\ j.c.demand >= minVolume
            /\ j.c.sellPrice > 0
            /\ j.c.sellPrice < PRICE_LIMIT
            /\ InBoundingBox(j.s, system, distance)
            /\ ExactDistanceBelow(j.s, system, distance)}},
        "sellPrice", REPORT_LIMIT)

\* !system.systemX: true of NULL and of 0
Falsy(v) == v = NullNum \/ v = 0

\* _getCommoditiesNearSystem(system, distance): the commodity names
getCommoditiesNearSystem(snapshot, system, distance) ==
    IF Falsy(system.systemX) \/ Falsy(system.systemY) \/ Falsy(system.systemZ) THEN {}
    ELSE {j.c.commodityName : j \in {j \in JoinedWithStations(snapshot) :
            /\ (j.c.stock > 0 \/ j.c.demand > 0)
            /\ InBoundingBox(j.s, system, distance)
            /\ ExactDistanceBelow(j.s, system, distance)}}

EmptySnapshot == [systems |-> << >>, locations |-> << >>, stations |-> << >>,
                  commodities |-> << >>]

\* No call of the report functions yet, on the databases and with the arguments given
ReportArgs(snapshot, system, distance) ==
    [called |-> FALSE, snapshot |-> snapshot, system |-> system, distance |-> distance,
     minVolume |-> DEFAULT_MINIMUM_TRADE_VOLUME,
     stats |-> {}, near |-> {}, exporters |-> << >>, importers |-> << >>]

NoReport == ReportArgs(EmptySnapshot, [systemX |-> 0, systemY |-> 0, systemZ |-> 0], 0)

\* updateCommodityStats() and the queries of updateCommodityReport(name, system,
\* distance, minVolume), each query for every commodity of the trade database
ReportCall ==
    /\ ~regional.called
    /\ LET snapshot == regional.snapshot
           names == {c.commodityName : c \in Rows(snapshot.commodities)}
       IN  \E exporters \in [names -> UNION {getBestCommodityExporters(snapshot, name,
                                 regional.minVolume, regional.system, regional.distance) :
                                     name \in names}],
              importers \in [names -> UNION {getBestCommodityImporters(snapshot, name,
                                 regional.minVolume, regional.system, regional.distance) :
                                     name \in names}] :
              /\ \A name \in names :
                    /\ exporters[name] \in getBestCommodityExporters(snapshot, name,
                          regional.minVolume, regional.system, regional.distance)
                    /\ importers[name] \in getBestCommodityImporters(snapshot, name,
                          regional.minVolume, regional.system, regional.distance)
              /\ regional' = [regional EXCEPT
                    !.called = TRUE,
                    !.stats = updateCommodityStats(snapshot.commodities),
                    !.near = getCommoditiesNearSystem(snapshot, regional.system,
                                                      regional.distance),
                    !.exporters = exporters,
                    !.importers = importers]
    /\ UNCHANGED <<core, nearby, vacuum, overlap, scripts, proc>>

----------------------------------------------------------------------------
(* Stats processes that run at overlapping times: each is a process of its own,
   started by exec() from a cron job, and the steps of its script on the snapshot
   directory interleave with the steps of the other *)

StatsProcesses == {"stats", "stats:commodity"}

\* A snapshot file: absent, or created at mtime by writer and complete or not
Absent == [exists |-> FALSE, mtime |-> 0, writer |-> "none", complete |-> FALSE]

\* Where a process is: the step of its script and the entry of databases it is at
At(step, i) == [step |-> step, i |-> i]

InitOverlap ==
    /\ snapshotFiles = [name \in SnapshotNames |-> Absent]
    /\ running = [p \in StatsProcesses |-> At("idle", 0)]
    /\ opened = {}

\* exec('npm run stats') and exec('npm run stats:commodity'): the script starts
Exec(p) ==
    /\ running[p].step = "idle"
    /\ running' = [running EXCEPT ![p] = At("areSnapshotsFresh", 0)]
    /\ UNCHANGED <<core, nearby, regional, vacuum, snapshotFiles, opened, scripts, proc>>

\* if (!areSnapshotsFresh()) createSnapshots()
CheckFresh(p) ==
    /\ running[p].step = "areSnapshotsFresh"
    /\ running' = [running EXCEPT ![p] =
          IF areSnapshotsFresh(snapshotFiles, now) THEN At("open", 0) ELSE At("rmSync", 1)]
    /\ UNCHANGED <<core, nearby, regional, vacuum, snapshotFiles, opened, scripts, proc>>

\* createSnapshots(): fs.rmSync(snapshotPath, { force: true })
RemoveOldSnapshot(p) ==
    /\ running[p].step = "rmSync"
    /\ snapshotFiles' = [snapshotFiles EXCEPT ![databases[running[p].i].name] = Absent]
    /\ running' = [running EXCEPT ![p].step = "VACUUM INTO"]
    /\ UNCHANGED <<core, nearby, regional, vacuum, opened, scripts, proc>>

\* createSnapshots(): db.exec(`VACUUM INTO '${snapshotPath}'`) creates the file, or
\* throws when the file exists
VacuumIntoBegins(p) ==
    /\ running[p].step = "VACUUM INTO"
    /\ LET name == databases[running[p].i].name
       IN  IF snapshotFiles[name].exists
           THEN /\ running' = [running EXCEPT ![p].step = "threw"]
                /\ UNCHANGED snapshotFiles
           ELSE /\ snapshotFiles' = [snapshotFiles EXCEPT ![name] =
                      [exists |-> TRUE, mtime |-> now, writer |-> p, complete |-> FALSE]]
                /\ running' = [running EXCEPT ![p].step = "writing"]
    /\ UNCHANGED <<core, nearby, regional, vacuum, opened, scripts, proc>>

\* createSnapshots(): VACUUM INTO has written the last page; fs.statSync(snapshotPath)
\* throws when the path is gone; then the next database, or the end of the loop
VacuumIntoEnds(p) ==
    /\ running[p].step = "writing"
    /\ LET name == databases[running[p].i].name
       IN  /\ snapshotFiles' =
                IF snapshotFiles[name].exists /\ snapshotFiles[name].writer = p
                THEN [snapshotFiles EXCEPT ![name].complete = TRUE]
                ELSE snapshotFiles
           /\ running' = [running EXCEPT ![p] =
                IF ~snapshotFiles[name].exists THEN At("threw", @.i)
                ELSE IF @.i < Len(databases) THEN At("rmSync", @.i + 1)
                ELSE At("open", 0)]
    /\ UNCHANGED <<core, nearby, regional, vacuum, opened, scripts, proc>>

\* The state of a snapshot file
FileState(file) ==
    IF ~file.exists THEN "absent" ELSE IF file.complete THEN "complete" ELSE "writing"

\* new SqliteDatabase(path, { readonly: true }) for each snapshot, and the queries;
\* a path that is gone throws
OpenSnapshots(p) ==
    /\ running[p].step = "open"
    /\ opened' = opened \cup
          {[process |-> p, name |-> name, state |-> FileState(snapshotFiles[name])] :
              name \in SnapshotNames}
    /\ running' = [running EXCEPT ![p].step =
          IF \E name \in SnapshotNames : ~snapshotFiles[name].exists THEN "threw" ELSE "done"]
    /\ UNCHANGED <<core, nearby, regional, vacuum, snapshotFiles, scripts, proc>>

NextOverlap ==
    \E p \in StatsProcesses :
        \/ Exec(p)
        \/ CheckFresh(p)
        \/ RemoveOldSnapshot(p)
        \/ VacuumIntoBegins(p)
        \/ VacuumIntoEnds(p)
        \/ OpenSnapshots(p)

----------------------------------------------------------------------------
(* The life of the collector process: startup, signals *)

\* The database whose VACUUM INTO throws in a run of createSnapshots (0: none)
FailurePoints == {0, 2}

\* The databases startup maintenance runs PRAGMA integrity_check on.  Their
\* files exist: requiring lib/db has opened, and so created, them.
IntegrityCheckedDatabases == {"systems.db", "stations.db", "trade.db"}

\* closeAllDatabaseConnections(): the databases in the order they are closed
closeAllDatabaseConnections == <<"locations", "stations", "commodities", "systems">>

\* The process as main() finds it, with SKIP_STARTUP_MAINTENANCE of its environment
Booting(skip) ==
    [phase |-> "boot", SKIP_STARTUP_MAINTENANCE |-> skip, integrityChecked |-> {},
     statsGenerated |-> FALSE, closed |-> << >>, exitCode |-> -1]

\* The process in the ingestion loop, when its startup is not followed
Running ==
    [phase |-> "running", SKIP_STARTUP_MAINTENANCE |-> FALSE, integrityChecked |-> {},
     statsGenerated |-> FALSE, closed |-> << >>, exitCode |-> -1]

\* main() from `await startupMaintenance()` to the ingestion loop: the integrity
\* checks, `npm run stats` (the database-stats and the commodity-stats scripts),
\* then the startup backup with the write-lock if there is no backup log
Startup(backupLogExists, failAt) ==
    /\ proc.phase = "boot"
    /\ proc' = [proc EXCEPT !.phase = "running",
                            !.integrityChecked = IntegrityCheckedDatabases,
                            !.statsGenerated = TRUE]
    /\ LET first == databaseStatsScript(snapshotDir, cacheDir, DBs, now, failAt)
       IN  /\ freshCheck' = [called |-> TRUE, at |-> now,
                             answer |-> areSnapshotsFresh(first.dir, now),
                             calls |-> freshCheck.calls]
           /\ \E left \in commodityStatsScript(first.dir, first.cache, DBs, now, failAt) :
                 /\ snapshotDir' = left.dir
                 /\ cacheDir' = left.cache
                 /\ lastRefresh' = left.refresh
    /\ startupBackup' = IF backupLogExists THEN "none" ELSE "running"
    /\ databaseWriteLocked' = ~backupLogExists
    /\ UNCHANGED <<stores, now, messageBuffer, inflight, messageCache, messageCount,
                   received, log, outcomes, lastCall, window, lastExit, nearby, regional,
                   vacuum, overlap,
                   liveSchema>>

\* The SIGTERM and the SIGINT handler
Signal ==
    /\ proc.phase # "exited"
    /\ proc' = [proc EXCEPT !.phase = "exited",
                            !.closed = closeAllDatabaseConnections,
                            !.exitCode = 0]
    /\ UNCHANGED <<core, nearby, regional, vacuum, overlap, scripts>>

----------------------------------------------------------------------------
(* Payloads *)

Payload(schemaRef, gatewayTimestamp, timestamp, gameversion, message) ==
    [wire |-> "ok",
     schemaRef |-> schemaRef,
     header |-> [gatewayTimestamp |-> gatewayTimestamp, timestamp |-> timestamp,
                 gameversion |-> gameversion],
     message |-> message]

Stamp(n) == "2026-01-01T00:00:0" \o ToString(n) \o "Z"

Gold(buyPrice) ==
    [name |-> "Gold", buyPrice |-> buyPrice, sellPrice |-> 10334, meanPrice |-> 9500,
     stock |-> 500, demand |-> 0, stockBracket |-> 2, demandBracket |-> 0]

CommodityMessage(marketId, stationName, stationType, timestamp, commodities) ==
    [marketId |-> marketId, systemName |-> "Sol", stationName |-> stationName,
     stationType |-> stationType, economy |-> "Refinery", shipyard |-> 1,
     timestamp |-> timestamp, commodities |-> commodities]

\* Scenario S1 with buy price p, sent at gateway time n by game version v
GoldFrame(p, n, v) ==
    Payload(COMMODITY_SCHEMA, Stamp(n), undefined, v,
            CommodityMessage(1000, "Abe", "Coriolis", Stamp(n), <<Gold(p)>>))

CorruptFrame == [GoldFrame(1, 9, "4.0.0.0") EXCEPT !.wire = "corrupt"]

\* A frame that inflates to text that is not JSON
BadJsonFrame == [GoldFrame(2, 8, "4.0.0.0") EXCEPT !.wire = "badjson"]

\* A feed with frames that do not decompress or do not parse among good ones
FaultPayloads == {GoldFrame(9100, 1, "4.0.0.0"), CorruptFrame, BadJsonFrame}

\* The frames the feed delivers under Spec
FeedPayloads ==
    {GoldFrame(9100, 1, "4.0.0.0"),
     GoldFrame(9200, 2, "4.0.0.0"),
     GoldFrame(9400, 3, "4.0.0.0"),
     GoldFrame(9500, 4, "3.9.0.0")}

\* Discovery scans of one system that differ in the sender's game version
GameVersions ==
    <<undefined, "4.0.0.0", "3.9.0.0", "CAPI-Live-market", "CAPI-Legacy-market">>

Origin == <<0, 0, 0>>
Elsewhere == <<120, -30, 5>>

Discovery(SystemAddress, SystemName, StarPos, n, v) ==
    Payload(DISCOVERY_SCHEMA, Stamp(n), undefined, v,
            [SystemAddress |-> SystemAddress, SystemName |-> SystemName, StarPos |-> StarPos])

GatePayloads == {Discovery(42, "X", Elsewhere, n, GameVersions[n]) : n \in 1..Len(GameVersions)}

Hop(StarSystem, SystemAddress, StarPos) ==
    [StarSystem |-> StarSystem, SystemAddress |-> SystemAddress, StarPos |-> StarPos,
     SystemName |-> undefined]

NavRoute(Route, n) ==
    Payload(NAVROUTE_SCHEMA, Stamp(n), undefined, "4.0.0.0", [Route |-> Route])

Approach(StarSystem, SystemAddress, StarPos, MarketID, Name, n) ==
    Payload(APPROACH_SCHEMA, Stamp(n), undefined, "4.0.0.0",
            [StarSystem |-> StarSystem, SystemName |-> undefined,
             SystemAddress |-> SystemAddress, StarPos |-> StarPos, MarketID |-> MarketID,
             Name |-> Name, BodyID |-> 7, BodyName |-> StarSystem \o " 1",
             Latitude |-> 10, Longitude |-> 20])

\* The same settlement event with the body and the surface position given
ApproachAt(StarSystem, SystemAddress, StarPos, Name, BodyID, Latitude, Longitude, n) ==
    Payload(APPROACH_SCHEMA, Stamp(n), undefined, "4.0.0.0",
            [StarSystem |-> StarSystem, SystemName |-> undefined,
             SystemAddress |-> SystemAddress, StarPos |-> StarPos, MarketID |-> 0,
             Name |-> Name, BodyID |-> BodyID, BodyName |-> StarSystem \o " 1",
             Latitude |-> Latitude, Longitude |-> Longitude])

Journal(event, StarSystem, SystemAddress, StarPos, timestamp, n) ==
    Payload(JOURNAL_SCHEMA, Stamp(n), undefined, "4.0.0.0",
            [event |-> event, StarSystem |-> StarSystem, SystemAddress |-> SystemAddress,
             StarPos |-> StarPos, timestamp |-> timestamp])

\* The payloads handed to the handlers under SpecHandlers
HandlerPayloads ==
    {Discovery(1, "Sol", Origin, 1, "4.0.0.0"),
     Discovery(42, "X", Origin, 1, "4.0.0.0"),
     Discovery(42, "X", Elsewhere, 1, "4.0.0.0"),
     Discovery(1, "Sol", NoStarPos, 1, "4.0.0.0"),
     NavRoute(<<Hop("X", 42, Origin), Hop("Sol", 1, Origin)>>, 1),
     NavRoute(<<Hop("X", 42, Elsewhere)>>, 1),
     Approach("Sol", 1, Origin, 0, "Mic Turner Base", 1),
     Approach("X", 42, Origin, 1000, "Abe", 1),
     Approach("X", 42, Elsewhere, 1000, "Abe", 1),
     Approach("X", 42, Elsewhere, 0, "Mic Turner Base", 1),
     Approach("X", 42, Elsewhere, 0, "Planetary Construction Site : A", 1),
     ApproachAt("X", 42, Elsewhere, "Mic Turner Base", 7, -10, 20, 1),
     Journal("Location", "X", 42, Origin, Stamp(1), 1),
     Journal("Location", "X", 42, NoStarPos, Stamp(2), 1),
     Journal("Location", "X", 42, Elsewhere, Stamp(1), 1),
     Journal("Location", "Sol", 1, Origin, Stamp(1), 1),
     Journal("Location", "X", 0, Elsewhere, Stamp(1), 1),
     Journal("FSDJump", "X", 42, Elsewhere, Stamp(1), 1),
     GoldFrame(9100, 1, "4.0.0.0"),
     GoldFrame(9200, 2, "4.0.0.0")}

NoCall == [called |-> FALSE, payload |-> CorruptFrame, before |-> [systems |-> << >>,
           locations |-> << >>, stations |-> << >>, commodities |-> << >>]]

----------------------------------------------------------------------------
(* Specifications *)

\* After startup: the stores are empty, and the startup backup is running with
\* the write-lock set exactly when no backup log was found.
\* The library functions and scripts have not been called
NoFreshCheck == [called |-> FALSE, at |-> 0, answer |-> FALSE, calls |-> 0]

InitAside ==
    /\ nearby = NearbyArgs(0, 0, 0, 0)
    /\ snapshotDir = [name \in SnapshotNames |-> NoFile]
    /\ cacheDir = [name \in CacheFileNames |-> NoCacheFile]
    /\ freshCheck = NoFreshCheck
    /\ lastRefresh = NoRefresh
    /\ regional = NoReport
    /\ vacuum = NoVacuum
    /\ InitOverlap
    /\ liveSchema = CurrentSchema
    /\ proc = Running

\* No child process has ended yet
NoExit == Exit("none", FALSE)

InitCore ==
    /\ systems = << >>
    /\ locations = << >>
    /\ stations = << >>
    /\ trade = << >>
    /\ now = 0
    /\ startupBackup \in {"none", "running"}
    /\ databaseWriteLocked = (startupBackup = "running")
    /\ messageBuffer = << >>
    /\ inflight = {}
    /\ messageCache = << >>
    /\ messageCount = 0
    /\ received = << >>
    /\ log = << >>
    /\ window = "idle"
    /\ lastExit = NoExit
    /\ outcomes = << >>
    /\ lastCall = NoCall

Init == InitCore /\ InitAside

Maintenance ==
    \/ StartupBackupExit
    \/ MaintenanceWindowStart
    \/ OptimizeExit
    \/ BackupExit
    \/ WeeklyVacuum

\* The feed delivers commodity frames; every decompression ends in time
Next ==
    \/ \E payload \in FeedPayloads : Receive(payload)
    \/ \E frame \in inflight : InflateCallback(frame, FALSE)
    \/ Maintenance

Spec == Init /\ [][Next]_vars

\* The gateway stamps two frames of different prices with the same time
SameStampPayloads ==
    {GoldFrame(9100, 1, "4.0.0.0"),
     GoldFrame(9200, 1, "4.0.0.0"),
     GoldFrame(9400, 2, "4.0.0.0")}

NextSameStamp ==
    \/ \E payload \in SameStampPayloads : Receive(payload)
    \/ \E frame \in inflight : InflateCallback(frame, FALSE)
    \/ StartupBackupExit

SpecSameStamp == Init /\ [][NextSameStamp]_vars

\* The cron jobs of the collector, and safe-vacuum.js run by hand
NextVacuum ==
    \/ Maintenance
    \/ SafeVacuum

SpecVacuum == Init /\ [][NextVacuum]_vars

\* The feed delivers payloads that differ in the game version
NextGate ==
    \/ \E payload \in GatePayloads : Receive(payload)
    \/ \E frame \in inflight : InflateCallback(frame, FALSE)
    \/ Maintenance

SpecGate == Init /\ [][NextGate]_vars

\* The feed delivers frames that fail, and a decompression may end after its
\* 5-second deadline
NextFaults ==
    \/ \E payload \in FaultPayloads : Receive(payload)
    \/ \E frame \in inflight, late \in BOOLEAN : InflateCallback(frame, late)
    \/ StartupBackupExit

SpecFaults == Init /\ [][NextFaults]_vars

\* The handler of a payload is called directly, as the switch of
\* processMessageData calls it, without dedup and version gate
Handle(payload) ==
    /\ messageCount < MaxCalls
    /\ messageCount' = messageCount + 1
    /\ SetDBs(dispatch(DBs, payload, now))
    /\ lastCall' = [called |-> TRUE, payload |-> payload, before |-> DBs]
    /\ UNCHANGED <<now, databaseWriteLocked, messageBuffer, inflight, messageCache,
                   received, log, outcomes, jobs, aside>>

NextHandlers ==
    \/ \E payload \in HandlerPayloads : Handle(payload)
    \/ Tick

SpecHandlers == Init /\ [][NextHandlers]_vars

\* Spec with the fairness the event loop gives: a pending inflate callback runs,
\* a child process ends and calls back.  The feed and the cron timers owe nothing.
FairSpec ==
    /\ Spec
    /\ WF_vars(\E frame \in inflight : InflateCallback(frame, FALSE))
    /\ WF_vars(StartupBackupExit)
    /\ WF_vars(OptimizeExit)
    /\ WF_vars(BackupExit)

\* A commodity frame of one market that sells Gold to or buys Gold from the player
Commodity(name, buyPrice, sellPrice, stock, demand) ==
    [name |-> name, buyPrice |-> buyPrice, sellPrice |-> sellPrice, meanPrice |-> 9500,
     stock |-> stock, demand |-> demand, stockBracket |-> 2, demandBracket |-> 2]

MarketFrame(marketId, stationName, stationType, commodity, n) ==
    Payload(COMMODITY_SCHEMA, Stamp(n), undefined, "4.0.0.0",
            CommodityMessage(marketId, stationName, stationType, Stamp(n), <<commodity>>))

\* The frames handled between the runs of the stats scripts: two markets that
\* trade Gold both ways, one of them with a stock of exactly the hot-trade minimum
StatsPayloads ==
    {MarketFrame(1000, "Abe", "Coriolis", Commodity("Gold", 9000, 9500, 100, 101), 1),
     MarketFrame(3000, "K7Q-BQL", "FleetCarrier", Commodity("Gold", 8000, 12000, 500, 500), 1)}

\* The frames of the feed while the process is followed from its start to its exit
LifecyclePayloads == {GoldFrame(9100, 1, "4.0.0.0"), GoldFrame(9200, 2, "4.0.0.0")}

\* The process starts with its environment, with or without a backup log, does
\* its startup, takes frames and runs its maintenance jobs until a signal ends it
InitLifecycle ==
    /\ InitCore
    /\ startupBackup = "none"
    /\ nearby = NearbyArgs(0, 0, 0, 0)
    /\ snapshotDir = [name \in SnapshotNames |-> NoFile]
    /\ cacheDir = [name \in CacheFileNames |-> NoCacheFile]
    /\ freshCheck = NoFreshCheck
    /\ lastRefresh = NoRefresh
    /\ regional = NoReport
    /\ vacuum = NoVacuum
    /\ InitOverlap
    /\ liveSchema = CurrentSchema
    /\ \E skip \in BOOLEAN : proc = Booting(skip)

NextLifecycle ==
    \/ \E backupLogExists \in BOOLEAN, failAt \in FailurePoints :
          Startup(backupLogExists, failAt)
    \/ proc.phase = "running" /\ \E payload \in LifecyclePayloads : Receive(payload)
    \/ proc.phase = "running" /\ \E frame \in inflight : InflateCallback(frame, FALSE)
    \/ proc.phase = "running" /\ Maintenance
    \/ Signal

SpecLifecycle == InitLifecycle /\ [][NextLifecycle]_vars

\* The scripts are run by hand while the collector is not running, on a data
\* directory that a collector of this release, of an older one or none has left
NotStarted == [Booting(FALSE) EXCEPT !.phase = "stopped"]

InitScripts ==
    /\ InitCore
    /\ startupBackup = "none"
    /\ nearby = NearbyArgs(0, 0, 0, 0)
    /\ snapshotDir = [name \in SnapshotNames |-> NoFile]
    /\ cacheDir = [name \in CacheFileNames |-> NoCacheFile]
    /\ freshCheck = NoFreshCheck
    /\ lastRefresh = NoRefresh
    /\ regional = NoReport
    /\ vacuum = NoVacuum
    /\ InitOverlap
    /\ liveSchema \in [SnapshotNames -> SchemaStates]
    /\ proc = NotStarted

NextScripts ==
    \/ \E failAt \in FailurePoints : CreateSnapshots(failAt)
    \/ \E failAt \in FailurePoints : DatabaseStatsScript(failAt)
    \/ \E failAt \in FailurePoints : CommodityStatsScript(failAt)
    \/ Elapse

SpecScripts == InitScripts /\ [][NextScripts]_vars

\* The 6-hourly timer fires again and again while events are handled and the
\* clock goes on
NextCron ==
    \/ \E payload \in StatsPayloads : Handle(payload)
    \/ \E failAt \in FailurePoints : StatsCron(failAt)
    \/ Tick

InitCron == Init /\ startupBackup = "none"

SpecCron == InitCron /\ [][NextCron]_vars

\* The stats scripts run, cron-started or by hand, while events are handled
NextStats ==
    \/ \E payload \in StatsPayloads : Handle(payload)
    \/ \E failAt \in FailurePoints : CreateSnapshots(failAt)
    \/ \E failAt \in FailurePoints : DatabaseStatsScript(failAt)
    \/ \E failAt \in FailurePoints : CommodityStatsScript(failAt)
    \/ Elapse

InitStats == Init /\ startupBackup = "none"

SpecStats == InitStats /\ [][NextStats]_vars

\* Reference points, radii and the points looked for around them (light years)
ReferenceCoordinates == {-150, -100, -1, 0, 99}
Radii == {0, 1, 100, 150}
PointCoordinates == {-250, -101, -100, -1, 0, 99, 100, 249}

\* getNearbySystemSectors is called once, with any reference point and radius
InitSectors ==
    /\ InitCore
    /\ startupBackup = "none"
    /\ snapshotDir = [name \in SnapshotNames |-> NoFile]
    /\ cacheDir = [name \in CacheFileNames |-> NoCacheFile]
    /\ freshCheck = NoFreshCheck
    /\ lastRefresh = NoRefresh
    /\ regional = NoReport
    /\ vacuum = NoVacuum
    /\ InitOverlap
    /\ liveSchema = CurrentSchema
    /\ proc = Running
    /\ \E x, y, z \in ReferenceCoordinates, distance \in Radii :
          nearby = NearbyArgs(x, y, z, distance)

NextSectors == NearbyCall

SpecSectors == InitSectors /\ [][NextSectors]_vars

\* Two stats processes started by the cron jobs at overlapping times
SpecOverlap == InitStats /\ [][NextOverlap]_vars

\* The feed delivers market frames of a station and of a fleet carrier and an
\* approach of a settlement with a market; the database-stats script runs
TotalsPayloads ==
    {MarketFrame(1000, "Abe", "Coriolis", Commodity("Gold", 9000, 9500, 100, 101), 1),
     MarketFrame(3000, "K7Q-BQL", "FleetCarrier", Commodity("Gold", 8000, 12000, 500, 500), 1),
     Approach("X", 42, Elsewhere, 2000, "Mic Turner Base", 1)}

NextTotals ==
    \/ \E payload \in TotalsPayloads : Handle(payload)
    \/ \E failAt \in FailurePoints : DatabaseStatsScript(failAt)
    \/ Tick

SpecTotals == InitStats /\ [][NextTotals]_vars

\* The reference systems of a report: Sol, at the origin, and one elsewhere
ReferenceSystems ==
    {NewRow("systems", [systemAddress |-> 1, systemName |-> "Sol",
                        systemX |-> Origin[1], systemY |-> Origin[2], systemZ |-> Origin[3]]),
     NewRow("systems", [systemAddress |-> 2, systemName |-> "Colonia",
                        systemX |-> Elsewhere[1], systemY |-> Elsewhere[2],
                        systemZ |-> Elsewhere[3]])}

ReportRadius == 100

\* Where a station lies, from the reference system: at it, just inside the radius, on
\* the radius, in a corner of the box outside the radius, outside the box
StationOffsets == {<<0, 0, 0>>, <<99, 0, 0>>, <<100, 0, 0>>, <<60, 60, 60>>, <<0, -101, 0>>}

\* The rows of a station a Docked event wrote (with coordinates)
StationsAround(system, marketId, name) ==
    {NewRow("stations", [marketId |-> marketId, stationName |-> name,
                         stationType |-> "Coriolis", systemName |-> "Near",
                         systemX |-> system.systemX + o[1],
                         systemY |-> system.systemY + o[2],
                         systemZ |-> system.systemZ + o[3]]) : o \in StationOffsets}

\* The row of a station only a commodity event wrote (no coordinates)
StationWithoutStarPos(marketId, name) ==
    NewRow("stations", [marketId |-> marketId, stationName |-> name])

Order(name, marketId, buyPrice, stock, sellPrice, demand) ==
    NewRow("commodities", [commodityName |-> name, marketId |-> marketId,
                           buyPrice |-> buyPrice, stock |-> stock,
                           sellPrice |-> sellPrice, demand |-> demand])

\* The databases a report is computed from: two stations, gold on sale and in demand
\* at both, at the first with a stock just below or at the minimum volume, and a rare
\* good on sale at the second
ReportSnapshots(system) ==
    {[systems |-> PutRow(<< >>, system.systemAddress, system),
      locations |-> << >>,
      stations |-> PutRow(PutRow(<< >>, 1000, a), 3000, b),
      commodities |-> PutRow(PutRow(PutRow(<< >>, <<"gold", 1000>>,
                                           Order("gold", 1000, 9000, stock, 9500, 1000)),
                                    <<"gold", 3000>>,
                                    Order("gold", 3000, 9100, 2000, 9400, 2000)),
                             <<"LavianBrandy", 3000>>,
                             Order("LavianBrandy", 3000, 3500, 7, 0, 0))] :
        a \in StationsAround(system, 1000, "A") \cup {StationWithoutStarPos(1000, "A")},
        b \in StationsAround(system, 3000, "B") \cup {StationWithoutStarPos(3000, "B")},
        stock \in {DEFAULT_MINIMUM_TRADE_VOLUME - 1, DEFAULT_MINIMUM_TRADE_VOLUME}}

InitReports ==
    /\ InitCore
    /\ startupBackup = "none"
    /\ nearby = NearbyArgs(0, 0, 0, 0)
    /\ snapshotDir = [name \in SnapshotNames |-> NoFile]
    /\ cacheDir = [name \in CacheFileNames |-> NoCacheFile]
    /\ freshCheck = NoFreshCheck
    /\ lastRefresh = NoRefresh
    /\ liveSchema = CurrentSchema
    /\ proc = Running
    /\ vacuum = NoVacuum
    /\ InitOverlap
    /\ \E system \in ReferenceSystems : \E snapshot \in ReportSnapshots(system) :
          regional = ReportArgs(snapshot, system, ReportRadius)

NextReports == ReportCall

SpecReports == InitReports /\ [][NextReports]_vars

----------------------------------------------------------------------------
(* Claims *)

Dispatched(n) == n \in DOMAIN outcomes /\ outcomes[n] = "dispatched"
Processed(n) == n \in DOMAIN outcomes
KeyOf(n) == cacheKey(received[n].payload, 0)
LogIds == {log[i].id : i \in 1..Len(log)}

\* C1: the frames held in the dead-letter buffer are dispatched to their handlers
\* in arrival order and before any frame that arrived after them: no frame is
\* dispatched ahead of a buffered frame that arrived earlier.
C1_BufferDispatchedInArrivalOrder ==
    \A i, j \in 1..Len(log) :
        (i < j /\ received[log[j].id].buffered) => log[i].id < log[j].id

\* C2: every frame that arrived while the write-lock was set is eventually
\* processed once the lock has been cleared, also when nothing else is sent.
C2_BufferedFrameEventuallyProcessed ==
    \A n \in 1..MaxFrames :
        [](((n <= Len(received)) /\ received[n].buffered) => <>Processed(n))

\* C3: no handler runs while the write-lock flag is set: a step that dispatches
\* a frame is taken with the flag clear.
C3_NoDispatchWhileLocked ==
    [][Len(log') > Len(log) => ~databaseWriteLocked]_vars

KeyEvicted(k) == \E m \in 1..Len(log) : k \in log[m].evicted

\* C4: a frame whose key is in the dedup set is dropped without a handler call
\* and without counting: the counter counts exactly the dispatched frames, and
\* of all deliveries of an accepted frame whose callbacks reached the dedup check,
\* the key never having been evicted, exactly one was dispatched, whichever
\* callback ran first.
C4_DuplicateDroppedOnce ==
    /\ messageCount = Cardinality({n \in DOMAIN outcomes : outcomes[n] = "dispatched"})
    /\ messageCount = Len(log)
    /\ \A i \in DOMAIN outcomes :
          ( /\ outcomes[i] \in {"dispatched", "duplicate"}
            /\ ~KeyEvicted(KeyOf(i)) )
          => Cardinality({n \in DOMAIN outcomes :
                            Dispatched(n) /\ KeyOf(n) = KeyOf(i)}) = 1

\* C4 witness: one accepted frame was delivered twice, both callbacks have run,
\* the later delivery was dispatched and the earlier dropped, the counter is 1.
C4_Witness ==
    \E i, j \in DOMAIN outcomes :
        /\ i < j
        /\ received[i].payload = received[j].payload
        /\ outcomes[i] = "duplicate"
        /\ outcomes[j] = "dispatched"
        /\ messageCount = 1

MajorNumberAtLeast(gameversion, k) ==
    LET major == splitFirst(gameversion, 1)
    IN  major # "" /\ IsDecimal(major) /\ DecimalValue(major, Len(major)) >= k

LiveVersion(gameversion) ==
    /\ gameversion # undefined
    /\ \/ MajorNumberAtLeast(gameversion, GAME_MIN_MAJOR_VERSION)
       \/ startsWith(gameversion, "CAPI-Live-")

\* C5: a frame reaches a handler only if the major number of its gameversion is
\* at least 4 or the gameversion begins with CAPI-Live-; every other frame is
\* rejected and writes no row.
C5_OnlyLiveVersionsReachHandlers ==
    /\ \A n \in DOMAIN outcomes :
          Dispatched(n) => LiveVersion(received[n].payload.header.gameversion)
    /\ (\A n \in DOMAIN outcomes : ~LiveVersion(received[n].payload.header.gameversion))
          => systems = << >>

FramesForPair(pair) ==
    {n \in LogIds :
        /\ received[n].payload.schemaRef = COMMODITY_SCHEMA
        /\ received[n].payload.message.marketId = pair[2]
        /\ \E c \in 1..Len(received[n].payload.message.commodities) :
              received[n].payload.message.commodities[c].name = pair[1]}

LastArrived(ids) == CHOOSE n \in ids : \A m \in ids : m <= n

\* C10: once every received frame has been processed, each trade row carries the
\* values of the last-arrived of the dispatched commodity frames for its pair.
C10_TradeRowIsLastArrived ==
    (inflight = {} /\ messageBuffer = << >>) =>
        \A pair \in DOMAIN trade :
            LET message == received[LastArrived(FramesForPair(pair))].payload.message
            IN  \E c \in 1..Len(message.commodities) :
                    /\ message.commodities[c].name = pair[1]
                    /\ message.commodities[c].buyPrice = trade[pair].buyPrice
                    /\ message.timestamp = trade[pair].updatedAt

----------------------------------------------------------------------------
(* Claims about the handlers, on the last handler call *)

Called(schemaRef) == lastCall.called /\ lastCall.payload.schemaRef = schemaRef

ZeroCoordinates(row) == row.systemX = 0 /\ row.systemY = 0 /\ row.systemZ = 0

\* C6: every row of the systems store has coordinates other than (0,0,0) or is
\* named Sol.
C6_ZeroCoordinatesOnlyForSol ==
    \A a \in DOMAIN systems : ~ZeroCoordinates(systems[a]) \/ systems[a].systemName = "Sol"

\* The systems a discovery-scan, nav-route or approach-settlement payload reports,
\* each with its name, address and position
ReportedSystems(payload) ==
    CASE payload.schemaRef = DISCOVERY_SCHEMA ->
            {[name |-> payload.message.SystemName, address |-> payload.message.SystemAddress,
              StarPos |-> payload.message.StarPos]}
      [] payload.schemaRef = NAVROUTE_SCHEMA ->
            {[name |-> payload.message.Route[i].StarSystem,
              address |-> payload.message.Route[i].SystemAddress,
              StarPos |-> payload.message.Route[i].StarPos] :
                i \in 1..Len(payload.message.Route)}
      [] payload.schemaRef = APPROACH_SCHEMA ->
            {[name |-> payload.message.StarSystem, address |-> payload.message.SystemAddress,
              StarPos |-> payload.message.StarPos]}
      [] OTHER -> {}

\* C7: an event at (0,0,0) is accepted exactly when its system is Sol: after the
\* call the Sol row is there, and a system of any other name reported at (0,0,0)
\* has been given no row.
C7_OriginAcceptedExactlyForSol ==
    lastCall.called =>
        \A r \in ReportedSystems(lastCall.payload) :
            r.StarPos = Origin =>
                IF r.name = "Sol"
                THEN r.address \in DOMAIN systems
                ELSE r.address \notin DOMAIN lastCall.before.systems
                        => r.address \notin DOMAIN systems

KeptStationColumns ==
    {"stationType", "allegiance", "government", "primaryEconomy", "secondaryEconomy",
     "shipyard", "outfitting", "maxLandingPadSize"}

\* C8: an approach-settlement event with a MarketID of a station already stored
\* leaves the row's other columns as they were.
C8_ApproachKeepsOtherStationColumns ==
    ( /\ Called(APPROACH_SCHEMA)
      /\ lastCall.payload.message.MarketID \in DOMAIN lastCall.before.stations )
    => \A c \in KeptStationColumns :
          stations[lastCall.payload.message.MarketID][c]
            = lastCall.before.stations[lastCall.payload.message.MarketID][c]

ContentHash(row) ==
    shake256(ToString(row.systemAddress) \o "/" \o row.locationName \o "/"
             \o ToString(row.bodyId) \o "/" \o ToString(row.latitude) \o "/"
             \o ToString(row.longitude))

\* C11: every row of the locations store has a locationId equal to the content
\* hash of its own systemAddress, locationName, bodyId, latitude and longitude.
C11_LocationIdIsContentHash ==
    \A id \in DOMAIN locations :
        /\ locations[id].locationId = id
        /\ id = ContentHash(locations[id])

\* C11 witness: approach-settlement events have stored two locations that differ
\* only in their surface position.
C11_Witness ==
    \E a, b \in DOMAIN locations :
        /\ a # b
        /\ locations[a].locationName = locations[b].locationName
        /\ locations[a].latitude # locations[b].latitude
        /\ lastCall.called /\ lastCall.payload.schemaRef = APPROACH_SCHEMA

\* C12: when inserting a key makes the dedup set exceed its cap, exactly the
\* MESSAGE_CACHE_CLEANUP_SIZE oldest entries by insertion order are removed and
\* every newer entry, the key just inserted included, is kept; below the cap
\* nothing is removed; after a callback the set is never over the cap.
C12_CleanupRemovesOldest ==
    [][ /\ Len(messageCache') <= MESSAGE_CACHE_MAX_SIZE
        /\ Len(log') > Len(log) =>
              LET key == KeyOf(log'[Len(log')].id)
              IN  IF Len(messageCache) + 1 > MESSAGE_CACHE_MAX_SIZE
                  THEN messageCache' =
                          Append(SubSeq(messageCache, MESSAGE_CACHE_CLEANUP_SIZE + 1,
                                        Len(messageCache)), key)
                  ELSE messageCache' = Append(messageCache, key)
        /\ Len(log') = Len(log) => messageCache' = messageCache ]_vars

\* C12 witness: the set was full, a further key was inserted and the oldest
\* entry was removed; the key just inserted is the newest entry.
C12_Witness ==
    /\ Len(log) > MESSAGE_CACHE_MAX_SIZE
    /\ log[Len(log)].evicted = {KeyOf(log[1].id)}
    /\ Len(messageCache) = MESSAGE_CACHE_MAX_SIZE + 1 - MESSAGE_CACHE_CLEANUP_SIZE
    /\ messageCache[Len(messageCache)] = KeyOf(log[Len(log)].id)

\* q is within the radius of the reference point of the call (Euclidean distance)
WithinRadius(q) ==
    (q[1] - nearby.x) * (q[1] - nearby.x) + (q[2] - nearby.y) * (q[2] - nearby.y)
        + (q[3] - nearby.z) * (q[3] - nearby.z) <= nearby.distance * nearby.distance

\* C13: the list returned by getNearbySystemSectors for a reference point and a
\* radius contains the sector id of every point within that radius of the point.
C13_NearbySectorsHaveNoFalseNegatives ==
    nearby.done =>
        \A qx, qy, qz \in PointCoordinates :
            WithinRadius(<<qx, qy, qz>>) =>
                \E i \in 1..Len(nearby.sectors) :
                    nearby.sectors[i] = getSystemSector(JSNumber(qx), JSNumber(qy), JSNumber(qz))

\* C13 witness: the call has returned for a radius of one grid cell, and a
\* point at exactly that distance lies in another sector than the reference point.
C13_Witness ==
    /\ nearby.done
    /\ nearby.distance = SYSTEM_GRID_SIZE
    /\ \E qx, qy, qz \in PointCoordinates :
          /\ (qx - nearby.x) * (qx - nearby.x) + (qy - nearby.y) * (qy - nearby.y)
                + (qz - nearby.z) * (qz - nearby.z) = nearby.distance * nearby.distance
          /\ getSystemSector(JSNumber(qx), JSNumber(qy), JSNumber(qz))
                # getSystemSector(JSNumber(nearby.x), JSNumber(nearby.y), JSNumber(nearby.z))

\* C14: a handler called a second time on the payload it was just called on
\* leaves every store, column for column, as its first call left it.
C14_SecondCallChangesNothing ==
    [][ ( /\ lastCall.called
          /\ messageCount' = messageCount + 1
          /\ lastCall'.payload = lastCall.payload )
        => stores' = stores ]_vars

\* C15: a stats script that runs again on snapshots of the same tables as its
\* previous run (no store written in between) writes each cache file with the
\* content the file already has.
C15_RerunWritesIdenticalFiles ==
    [][ \A name \in CacheFileNames :
          ( /\ cacheDir[name].exists
            /\ cacheDir[name].from = DBs
            /\ cacheDir'[name].from = DBs )
          => cacheDir'[name].content = cacheDir[name].content ]_vars

\* The pairs of trade rows the hot-trade rule admits: same commodity, two
\* markets, at least the minimum stock and demand, valid prices, a profit
HotPairs(commodities) ==
    {pair \in Rows(commodities) \X Rows(commodities) :
        /\ pair[1].commodityName = pair[2].commodityName
        /\ pair[1].marketId # pair[2].marketId
        /\ pair[1].stock >= HOT_TRADES_MIN_VOLUME
        /\ pair[2].demand >= HOT_TRADES_MIN_VOLUME
        /\ pair[1].buyPrice > 0 /\ pair[1].buyPrice < PRICE_LIMIT
        /\ pair[2].sellPrice > 0 /\ pair[2].sellPrice < PRICE_LIMIT
        /\ pair[2].sellPrice > pair[1].buyPrice}

PairOf(entry, commodities) ==
    <<commodities[<<entry.commodity, entry.buy.marketId>>],
      commodities[<<entry.commodity, entry.sell.marketId>>]>>

\* C16: the ticker's hotTrades list is made of the HOT_TRADES_LIMIT most
\* profitable pairs, by descending profit, among the pairs the hot-trade rule
\* admits in the snapshot, a stock or demand of exactly the minimum included.
C16_HotTradesAreTheMostProfitablePairs ==
    cacheDir[TICKER_FILE].exists =>
        LET hot == cacheDir[TICKER_FILE].content.hotTrades
            commodities == cacheDir[TICKER_FILE].from.commodities
            pairs == HotPairs(commodities)
            listed == {PairOf(hot[i], commodities) : i \in 1..Len(hot)}
        IN  /\ listed \subseteq pairs
            /\ Cardinality(listed) = Len(hot)
            /\ Len(hot) = IF Cardinality(pairs) < HOT_TRADES_LIMIT
                          THEN Cardinality(pairs) ELSE HOT_TRADES_LIMIT
            /\ \A i \in 1..Len(hot) :
                  hot[i].profit = PairOf(hot[i], commodities)[2].sellPrice
                                    - PairOf(hot[i], commodities)[1].buyPrice
            /\ \A i, j \in 1..Len(hot) : i < j => hot[i].profit >= hot[j].profit
            /\ \A pair \in pairs \ listed :
                  \A i \in 1..Len(hot) : hot[i].profit >= pair[2].sellPrice - pair[1].buyPrice

C18_HealthShowsMaintenanceWhileLocked ==
    IF databaseWriteLocked
    THEN /\ "maintenance" \in DOMAIN health
         /\ DOMAIN health.maintenance = {"running", "duration"}
         /\ health.maintenance.running = TRUE
    ELSE "maintenance" \notin DOMAIN health

\* C19: a process ended by an interrupt or terminate signal has processed the
\* frames held in its dead-letter buffer, has closed all four databases after
\* that, and has exited with code 0.
C19_SignalDrainsBufferBeforeExit ==
    proc.phase = "exited" =>
        /\ \A i \in 1..Len(messageBuffer) : Processed(messageBuffer[i].id)
        /\ {proc.closed[i] : i \in 1..Len(proc.closed)}
              = {"systems", "locations", "stations", "commodities"}
        /\ proc.exitCode = 0

\* C20: a process started with SKIP_STARTUP_MAINTENANCE=true has come to its
\* ingestion loop without the integrity checks and without the stats generation
\* of startup maintenance.
C20_SkipFlagSkipsStartupMaintenance ==
    (proc.SKIP_STARTUP_MAINTENANCE /\ proc.phase # "boot") =>
        proc.integrityChecked = {} /\ ~proc.statsGenerated

\* C21: whenever a maintenance job that sets the write-lock is still running
\* (the startup backup, or the optimize or the backup job of a maintenance
\* window), the write-lock is set; a job that ends while another one runs does
\* not clear it.
C21_LockHeldWhileAnyJobRuns ==
    (startupBackup = "running" \/ window # "idle") => databaseWriteLocked

\* C22: when a maintenance window has started, the write-lock is set when the
\* optimize job starts, the backup job starts only when the optimize job has
\* ended, the chain ends only when the backup job has ended, and until then the
\* write-lock is not cleared: the only step that clears it during a window is
\* the end of the backup job.
C22_WindowChainOrder ==
    [][/\ (window = "idle" /\ window' = "optimize") => databaseWriteLocked'
       /\ (window # "backup" /\ window' = "backup") =>
              window = "optimize" /\ lastExit' \in {Exit("optimize", e) : e \in BOOLEAN}
       /\ (window # "idle" /\ window' = "idle") =>
              window = "backup" /\ lastExit' \in {Exit("backup", e) : e \in BOOLEAN}
       /\ (window # "idle" /\ databaseWriteLocked /\ ~databaseWriteLocked') =>
              window = "backup" /\ window' = "idle"]_vars

C24_NoDispatchBeforeStartupBackupEnds ==
    startupBackup = "running" => log = << >>

\* The outcomes of an inflate callback that drop the frame for a fault of the frame
FaultOutcomes == {"error", "aborted", "parse-error"}

\* C25: the inflate callback of a frame that fails decompression, that ends
\* after the 5-second deadline, or that does not parse as JSON changes no store,
\* not the dedup set and not the processed counter, takes only that frame out of
\* the frames in flight and does not end the process.
C25_FaultyFrameDroppedLoopGoesOn ==
    [][\A id \in DOMAIN outcomes' \ DOMAIN outcomes :
          (received[id].payload.wire # "ok" \/ outcomes'[id] \in FaultOutcomes) =>
              /\ UNCHANGED <<systems, locations, stations, trade, messageCache, messageCount>>
              /\ inflight' = {frame \in inflight : frame.id # id}
              /\ proc' = proc]_vars

\* Two frames have been dropped, one past its deadline and one that did not
\* parse, and a frame that arrived after them has reached its handler
C25_Witness ==
    /\ \A fault \in {"aborted", "parse-error"} : \E id \in DOMAIN outcomes : outcomes[id] = fault
    /\ \E id \in DOMAIN outcomes :
          /\ outcomes[id] = "dispatched"
          /\ \A other \in DOMAIN outcomes : outcomes[other] \in FaultOutcomes => other < id

\* C26: a discovery-scan, nav-route or approach-settlement event leaves every
\* row it finds in the systems store as it was: name, coordinates, sector and
\* updatedAt.
C26_ExistingSystemRowUnchanged ==
    (Called(DISCOVERY_SCHEMA) \/ Called(NAVROUTE_SCHEMA) \/ Called(APPROACH_SCHEMA)) =>
        \A a \in DOMAIN lastCall.before.systems :
            a \in DOMAIN systems /\ systems[a] = lastCall.before.systems[a]

\* A discovery scan with valid coordinates was handled for a system that had a
\* row written at an earlier time
C26_Witness ==
    /\ Called(DISCOVERY_SCHEMA)
    /\ lastCall.payload.message.StarPos = Elsewhere
    /\ lastCall.payload.message.SystemAddress \in DOMAIN lastCall.before.systems
    /\ systems[lastCall.payload.message.SystemAddress].updatedAt # ISO(now)

\* C27: a journal Location event without StarPos for a system that is stored
\* with coordinates leaves the row's systemX, systemY and systemZ as they were.
C27_LocationWithoutStarPosKeepsCoordinates ==
    ( /\ Called(JOURNAL_SCHEMA)
      /\ lastCall.payload.message.event = "Location"
      /\ lastCall.payload.message.StarPos = NoStarPos
      /\ lastCall.payload.message.SystemAddress \in DOMAIN lastCall.before.systems
      /\ lastCall.before.systems[lastCall.payload.message.SystemAddress].systemX # NullNum )
    => \A c \in {"systemX", "systemY", "systemZ"} :
          systems[lastCall.payload.message.SystemAddress][c]
            = lastCall.before.systems[lastCall.payload.message.SystemAddress][c]

\* C28: every row of the systems store that has coordinates has the sector id
\* of its coordinates as its systemSector.
C28_SectorIsSectorOfCoordinates ==
    \A a \in DOMAIN systems :
        systems[a].systemX # NullNum =>
            systems[a].systemSector
              = getSystemSector(JSNumber(systems[a].systemX), JSNumber(systems[a].systemY),
                                JSNumber(systems[a].systemZ))

\* C29: an approach-settlement event with a MarketID leaves the locations and
\* the trade store unchanged; one without a MarketID leaves the stations and the
\* trade store unchanged, and the locations store too when the name starts with
\* the construction-site prefix.
C29_ApproachWritesOneOfStationsAndLocations ==
    Called(APPROACH_SCHEMA) =>
        /\ trade = lastCall.before.commodities
        /\ IF lastCall.payload.message.MarketID # 0
           THEN locations = lastCall.before.locations
           ELSE /\ stations = lastCall.before.stations
                /\ startsWith(lastCall.payload.message.Name, CONSTRUCTION_SITE_PREFIX)
                      => locations = lastCall.before.locations

\* An approach-settlement event with a MarketID wrote its stations row, next to
\* a location that an event without a MarketID had written before
C29_Witness ==
    /\ Called(APPROACH_SCHEMA)
    /\ lastCall.payload.message.MarketID # 0
    /\ stations # lastCall.before.stations
    /\ locations # << >>

\* C30: a run of a stats script changes no live database file, neither its rows
\* nor its tables, columns and indexes.
C30_StatsRunNeverWritesLiveDatabase ==
    [][freshCheck'.calls # freshCheck.calls =>
          UNCHANGED <<liveSchema, systems, locations, stations, trade>>]_vars

\* C31: a run of a stats script whose call of createSnapshots threw has called
\* createSnapshots a second time before it gave up.
C31_FailedRefreshRetriedOnce ==
    lastRefresh.threw => lastRefresh.attempts = 2

\* The seconds since a file of the cache was written
CacheAge(name) == now - IsoSeconds(cacheDir[name].content.timestamp)

\* C32: while the snapshots are fresh and every cache file is there and not
\* older than the freshness threshold, the firing of the 6-hourly timer rewrites
\* no cache file.
C32_TimerSkipsWhileFresh ==
    [][( /\ areSnapshotsFresh(snapshotDir, now)
         /\ \A name \in CacheFileNames :
               cacheDir[name].exists /\ CacheAge(name) <= SNAPSHOT_AGE_LIMIT )
       => cacheDir' = cacheDir]_vars

\* A commodity is traded at a station within the radius of the reference system
TradedWithin(snapshot, system, distance) ==
    {j.c.commodityName : j \in {j \in JoinedWithStations(snapshot) :
        /\ (j.c.stock > 0 \/ j.c.demand > 0)
        /\ ExactDistanceBelow(j.s, system, distance)}}

\* C33: the commodities of the regional report of a reference system of the systems
\* store, Sol at (0,0,0) included, are all the commodities traded at a station whose
\* exact distance from that system is within the radius.
C33_ReportCoversEveryCommodityInRadius ==
    (regional.called /\ regional.system.systemAddress \in DOMAIN regional.snapshot.systems)
       => TradedWithin(regional.snapshot, regional.system, regional.distance)
             \subseteq regional.near

\* The rows of the exporters query without its BETWEEN conditions
ExportersByDistanceAlone(snapshot, commodityName, minVolume, system, distance) ==
    {ReportRow(j) : j \in {j \in JoinedWithStations(snapshot) :
        /\ j.c.commodityName = commodityName
        /\ j.c.stock >= minVolume
        /\ j.c.buyPrice > 0
        /\ j.c.buyPrice < PRICE_LIMIT
        /\ ExactDistanceBelow(j.s, system, distance)}}

\* The rows of the importers query without its BETWEEN conditions
ImportersByDistanceAlone(snapshot, commodityName, minVolume, system, distance) ==
    {ReportRow(j) : j \in {j \in JoinedWithStations(snapshot) :
        /\ j.c.commodityName = commodityName
        /\ j.c.demand >= minVolume
        /\ j.c.sellPrice > 0
        /\ j.c.sellPrice < PRICE_LIMIT
        /\ ExactDistanceBelow(j.s, system, distance)}}

\* C34: the bounding box on the station coordinates does not change the result of the
\* exporters and importers queries: the rows returned are the rows the exact-distance
\* condition alone returns.
C34_BoundingBoxChangesNoResult ==
    regional.called =>
        \A name \in DOMAIN regional.exporters :
            /\ regional.exporters[name] \in
                  OrderedAscLimit(ExportersByDistanceAlone(regional.snapshot, name,
                        regional.minVolume, regional.system, regional.distance),
                     "buyPrice", REPORT_LIMIT)
            /\ regional.importers[name] \in
                  OrderedDescLimit(ImportersByDistanceAlone(regional.snapshot, name,
                        regional.minVolume, regional.system, regional.distance),
                     "sellPrice", REPORT_LIMIT)

\* A report with one gold exporter and one gold importer in the radius, the other
\* station with gold lying inside the box and outside the radius
C34_Witness ==
    /\ regional.called
    /\ Len(regional.exporters["gold"]) = 1
    /\ Len(regional.importers["gold"]) = 1
    /\ \E j \in JoinedWithStations(regional.snapshot) :
          /\ j.c.commodityName = "gold"
          /\ j.c.stock >= regional.minVolume
          /\ j.c.demand >= regional.minVolume
          /\ InBoundingBox(j.s, regional.system, regional.distance)
          /\ ~ExactDistanceBelow(j.s, regional.system, regional.distance)

\* C35: the entry of a rare commodity has minimum, average and maximum buy price
\* equal to the buy price of the data, minimum, average and maximum sell price equal
\* to that buy price plus the rare-goods premium, and total stock and demand zero.
C35_RareCommodityAggregate ==
    regional.called =>
        \A entry \in regional.stats :
            entry.rare =>
                LET observed == MinOf({c \in Rows(regional.snapshot.commodities) :
                                          c.commodityName = entry.commodityName}, "buyPrice")
                IN  /\ entry.minBuyPrice = observed
                    /\ entry.avgBuyPrice = observed
                    /\ entry.maxBuyPrice = observed
                    /\ entry.minSellPrice = observed + RARE_GOODS_VALUE_INCREASE
                    /\ entry.avgSellPrice = observed + RARE_GOODS_VALUE_INCREASE
                    /\ entry.maxSellPrice = observed + RARE_GOODS_VALUE_INCREASE
                    /\ entry.totalStock = 0
                    /\ entry.totalDemand = 0

\* C36: every VACUUM of the trade database runs with the write-lock set and on a
\* connection whose temporary storage is on disk.
C36_VacuumLockedAndOnDisk ==
    vacuum.by # "none" => vacuum.locked /\ vacuum.tempStore = "FILE"

\* C37: in the database-totals report the station count and the fleet-carrier count
\* add up to the number of rows of the stations store the report was computed from.
C37_StationAndCarrierCountsCoverStations ==
    cacheDir[DATABASE_STATS_FILE].exists =>
        LET file == cacheDir[DATABASE_STATS_FILE]
        IN  file.content.stations.stations + file.content.stations.carriers
               = Cardinality(DOMAIN file.from.stations)

\* C39: a frame is dropped as a duplicate only if a frame with the same payload was
\* dispatched: frames with different message bodies are never duplicates of each
\* other.
C39_DuplicateHasSamePayload ==
    \A i \in DOMAIN outcomes :
        outcomes[i] = "duplicate" =>
            \E j \in DOMAIN outcomes :
                Dispatched(j) /\ received[j].payload = received[i].payload

\* C38: when two stats processes run at overlapping times, neither opens a snapshot
\* file the other has deleted or is still writing: every snapshot a process opens
\* is completely written.
C38_OnlyCompleteSnapshotsOpened ==
    \A o \in opened : o.state = "complete"

====
